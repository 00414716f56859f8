---------------------------- MODULE PollerProofs ----------------------------
(***************************************************************************)
(* What the poller's separate upsert transactions buy, for any number of   *)
(* tickets, comments and failing cycles: rows precede jobs, a ticket gets  *)
(* its initial reply once, and observing is never set again; what is       *)
(* stored is worked on, an initial reply is missing only for a fault, and  *)
(* the checkpoints leave nothing behind but what was listed too late.      *)
(***************************************************************************)
EXTENDS Poller, FiniteSetTheorems, TLAPS

\* The parts of TypeOK that the argument needs.
Types ==
    /\ row \in [Tickets -> Statuses \cup {"none"}]
    /\ observing \in [Tickets -> BOOLEAN]
    /\ jobs \in [Jobs -> Nat]
    /\ todo \subseteq Listed
    /\ comments \subseteq Comments
    /\ status \in [Tickets -> Statuses \cup {"none"}]
    /\ updated \in [Tickets -> Times]
    /\ clock \in Times

Busy == {"initial", "publish", "update", "fetch", "comments"}

\* While a ticket is worked on, its row is there.
CurHasRow == pc \in Busy => cur \in Listed /\ row[cur.id] # "none"

\* The comments still to be processed belong to that ticket.
OwnComments ==
    /\ \A c \in comments : TicketOf[c] = cur.id
    /\ pc \in {"sleeping", "open", "initial", "events"} => comments = {}

\* So does the event that is processed.
KeysOf(e) == {StatusKey(e)} \cup {CommentKey(c) : c \in {d \in Comments : TicketOf[d] = e.id}}
OwnKey == pc \in {"publish", "update"} => key \in KeysOf(cur)

\* The copies of the initial reply are those of one publish(), and a ticket whose
\* initial reply is about to be published has had none.
InitialOnce ==
    /\ \A t \in Tickets : jobs[InitialReply(t)] <= MaxPublishAttempts
    /\ pc = "initial" => jobs[InitialReply(cur.id)] = 0

Inv == Types /\ CurHasRow /\ OwnComments /\ OwnKey /\ InitialOnce /\ JobsFollowRows

inspected == <<row, observing, jobs, todo, comments, status, updated, clock, pc, cur, key>>

\* The invariant looks at no other variable.
LEMMA InspectedInv ==
  ASSUME Inv, UNCHANGED inspected
  PROVE  Inv'
  BY DEF Inv, inspected, Types, CurHasRow, OwnComments, OwnKey, KeysOf, StatusKey, CommentKey,
     InitialOnce, JobsFollowRows, InitialReply

\* Init establishes the invariant.
LEMMA InitInv == Init => Inv
<1> SUFFICES ASSUME Init PROVE Inv
  OBVIOUS
<1>1. Types
  BY PollerAssumption DEF Init, Types, Times
<1>2. \A t \in Tickets : InitialReply(t) \in Jobs
  BY DEF Jobs
<1>3. InitialOnce /\ JobsFollowRows
  BY <1>2, PollerAssumption DEF Init, InitialOnce, JobsFollowRows
<1> QED
  BY <1>1, <1>3 DEF Init, Inv, CurHasRow, Busy, OwnComments, OwnKey

\* Every job belongs to one ticket: the jobs of two tickets differ.
LEMMA JobsAreOwned ==
  ASSUME NEW t \in Tickets
  PROVE  /\ JobsOf(t) \subseteq Jobs
         /\ \A u \in Tickets : u # t => JobsOf(t) \cap JobsOf(u) = {}
         /\ \A u \in Tickets, j \in JobsOf(t) : j = InitialReply(u) => u = t
  BY DEF Jobs, JobsOf, InitialReply, TicketClosed, CommentJob

\* publish() adds copies of one job, as many as it has attempts at most.
LEMMA PublishEffect ==
  ASSUME jobs \in [Jobs -> Nat], NEW j \in Jobs, PublishJob(j)
  PROVE  /\ jobs' \in [Jobs -> Nat]
         /\ jobs'[j] <= jobs[j] + MaxPublishAttempts
         /\ \A k \in Jobs : k # j => jobs'[k] = jobs[k]
<1>1. PICK n \in 0..MaxPublishAttempts : jobs' = [jobs EXCEPT ![j] = @ + n]
  <2>1. PICK lost \in 0..MaxPublishAttempts :
           \/ lost < MaxPublishAttempts /\ jobs' = [jobs EXCEPT ![j] = @ + lost + 1]
           \/ jobs' = [jobs EXCEPT ![j] = @ + lost]
    BY DEF PublishJob
  <2>2. CASE lost < MaxPublishAttempts /\ jobs' = [jobs EXCEPT ![j] = @ + lost + 1]
    <3>1. lost + 1 \in 0..MaxPublishAttempts /\ jobs[j] \in Nat
      BY <2>2, PollerAssumption
    <3>2. jobs[j] + lost + 1 = jobs[j] + (lost + 1)
      BY <3>1
    <3> QED
      BY <2>2, <3>1, <3>2
  <2> QED
    BY <2>1, <2>2
<1>2. n \in Nat /\ n <= MaxPublishAttempts /\ jobs[j] \in Nat
  BY PollerAssumption
<1> QED
  BY <1>1, <1>2, PollerAssumption

\* Each copy but the first is a lost confirm, and a refusal is a fault as well.
LEMMA PublishFaults ==
  ASSUME jobs \in [Jobs -> Nat], faults \in Nat, NEW j \in Jobs, PublishJob(j)
  PROVE  /\ faults' \in Nat /\ faults <= faults'
         /\ jobs'[j] <= jobs[j] + 1 + (faults' - faults)
         /\ jobs'[j] > jobs[j] \/ faults + 1 <= faults'
<1>1. PICK lost \in 0..MaxPublishAttempts :
         \/ jobs' = [jobs EXCEPT ![j] = @ + lost + 1] /\ faults' = faults + lost
         \/ jobs' = [jobs EXCEPT ![j] = @ + lost] /\ faults' = faults + Later(1, lost)
  BY DEF PublishJob
<1>2. lost \in Nat /\ jobs[j] \in Nat /\ Later(1, lost) \in Nat /\ 1 <= Later(1, lost)
      /\ lost <= Later(1, lost)
  BY PollerAssumption DEF Later
<1>3. CASE jobs' = [jobs EXCEPT ![j] = @ + lost + 1] /\ faults' = faults + lost
  BY <1>2, <1>3
<1>4. CASE jobs' = [jobs EXCEPT ![j] = @ + lost] /\ faults' = faults + Later(1, lost)
  BY <1>2, <1>4
<1> QED
  BY <1>1, <1>3, <1>4

\* The job of an event of a ticket is a job of that ticket, and no initial reply.
LEMMA JobOfOwnKey ==
  ASSUME NEW e \in Listed, NEW k \in KeysOf(e)
  PROVE  JobOf(k) \in JobsOf(e.id) /\ \A t \in Tickets : JobOf(k) # InitialReply(t)
<1>1. CASE k = StatusKey(e)
  <2>1. JobOf(k) = TicketClosed(e.id)
    BY <1>1 DEF JobOf, IsStatus, StatusKey
  <2> QED
    BY <2>1 DEF JobsOf, TicketClosed, InitialReply
<1>2. ASSUME NEW c \in Comments, TicketOf[c] = e.id, k = CommentKey(c)
      PROVE  JobOf(k) \in JobsOf(e.id) /\ \A t \in Tickets : JobOf(k) # InitialReply(t)
  <2>1. JobOf(k) = CommentJob(c)
    BY <1>2 DEF JobOf, IsStatus, CommentKey
  <2> QED
    BY <2>1, <1>2 DEF JobsOf, CommentJob, InitialReply
<1> QED
  BY <1>1, <1>2 DEF KeysOf

\* An upsert of a status takes no row away and never observes a ticket again.
LEMMA UpsertEffect ==
  ASSUME Types, NEW t \in Tickets, NEW s \in Statuses, NEW observe \in BOOLEAN,
         Upsert(t, s, observe)
  PROVE  /\ row' \in [Tickets -> Statuses \cup {"none"}]
         /\ observing' \in [Tickets -> BOOLEAN]
         /\ row'[t] # "none"
         /\ \A u \in Tickets : row[u] # "none" => row'[u] # "none"
         /\ \A u \in Tickets : ~observing[u] => ~observing'[u]
  BY DEF Types, Upsert, Statuses

\* A listing holds listed tickets.
LEMMA FetchEffect ==
  ASSUME Types, NEW after, NEW statuses \in SUBSET Statuses, Fetch(after, statuses)
  PROVE  todo' \subseteq Listed
<1>1. Listing(after, statuses) \subseteq Listed
  BY DEF Listing, Listed, Types
<1> QED
  BY <1>1 DEF Fetch

----------------------------------------------------------------------------
\* Rows only appear: what the invariant says of rows survives an upsert.
LEMMA RowsSurvive ==
  ASSUME Inv, NEW t \in Tickets, NEW s \in Statuses, NEW observe \in BOOLEAN,
         Upsert(t, s, observe)
  PROVE  /\ row' \in [Tickets -> Statuses \cup {"none"}]
         /\ observing' \in [Tickets -> BOOLEAN]
         /\ row'[t] # "none"
         /\ pc \in Busy => cur \in Listed /\ row'[cur.id] # "none"
         /\ \A u \in Tickets, j \in Jobs : j \in JobsOf(u) /\ jobs[j] > 0 => row'[u] # "none"
<1>1. Types
  BY DEF Inv
<1>2. /\ row' \in [Tickets -> Statuses \cup {"none"}]
      /\ observing' \in [Tickets -> BOOLEAN]
      /\ row'[t] # "none"
      /\ \A u \in Tickets : row[u] # "none" => row'[u] # "none"
  BY <1>1, UpsertEffect
<1>3. pc \in Busy => cur \in Listed /\ row'[cur.id] # "none"
  BY <1>2 DEF Inv, CurHasRow, Listed
<1>4. \A u \in Tickets, j \in Jobs : j \in JobsOf(u) /\ jobs[j] > 0 => row'[u] # "none"
  BY <1>2 DEF Inv, JobsFollowRows
<1> QED
  BY <1>2, <1>3, <1>4

\* Customers, agents and time do not touch the poller's state.
LEMMA ZendeskInv ==
  ASSUME Inv, Tick \/ Zendesk
  PROVE  Inv'
<1> USE DEF Inv
<1>1. UNCHANGED <<row, observing, jobs, todo, comments, pc, cur, key>>
  BY DEF Tick, Zendesk, CreateTicket, PostComment, SetStatus, Appears, tables, cycle
<1>2. status' \in [Tickets -> Statuses \cup {"none"}] /\ updated' \in [Tickets -> Times]
      /\ clock' \in Times
  <2>1. CASE Tick
    BY <2>1, PollerAssumption DEF Tick, Types, Times
  <2>2. CASE \E c \in Comments : CreateTicket(c) \/ PostComment(c)
    BY <2>2, PollerAssumption DEF CreateTicket, PostComment, Touch, Types, Statuses
  <2>3. CASE \E t \in Tickets : (\E s \in Statuses : SetStatus(t, s)) \/ Appears(t)
    BY <2>3 DEF SetStatus, Appears, Touch, Types
  <2> QED
    BY <2>1, <2>2, <2>3 DEF Zendesk
<1>3. Types'
  BY <1>1, <1>2 DEF Types
<1> QED
  BY <1>1, <1>3 DEF CurHasRow, OwnComments, OwnKey, KeysOf, StatusKey, CommentKey,
     InitialOnce, JobsFollowRows, InitialReply

\* The workers take no row away and publish nothing.
LEMMA WorkersInv ==
  ASSUME Inv, Workers
  PROVE  Inv'
<1> USE DEF Inv
<1>1. UNCHANGED <<jobs, todo, comments, status, updated, clock, pc, cur, key>>
  BY DEF Workers, CloseTicket, FilterTicket, StoreConversation, RefreshComments, cycle, zendesk
<1>2. /\ row' \in [Tickets -> Statuses \cup {"none"}]
      /\ observing' \in [Tickets -> BOOLEAN]
      /\ pc \in Busy => cur \in Listed /\ row'[cur.id] # "none"
      /\ \A u \in Tickets, j \in Jobs : j \in JobsOf(u) /\ jobs[j] > 0 => row'[u] # "none"
  <2>1. ASSUME NEW t \in Tickets, FilterTicket(t)
        PROVE  Upsert(t, "open", FALSE) /\ "open" \in Statuses
    BY <2>1 DEF FilterTicket, Statuses
  <2>2. CASE \E t \in Tickets : FilterTicket(t)
    BY <2>1, <2>2, RowsSurvive
  <2>3. CASE \E t \in Tickets : CloseTicket(t)
    BY <2>3 DEF CloseTicket, Types, CurHasRow, JobsFollowRows
  <2>4. CASE \E c \in Comments : StoreConversation(c)
    BY <2>4 DEF StoreConversation, Types, CurHasRow, JobsFollowRows
  <2>5. CASE \E t \in Tickets, time \in 1..clock : RefreshComments(t, time)
    BY <2>5 DEF RefreshComments, Types, CurHasRow, JobsFollowRows
  <2> QED
    BY <2>2, <2>3, <2>4, <2>5 DEF Workers
<1>3. Types' /\ CurHasRow' /\ JobsFollowRows'
  BY <1>1, <1>2 DEF Types, CurHasRow, JobsFollowRows
<1> QED
  BY <1>1, <1>3 DEF OwnComments, OwnKey, KeysOf, StatusKey, CommentKey, InitialOnce,
     InitialReply

\* A cycle begins, turns to the events, or ends: it works on no ticket.
LEMMA PhaseInv ==
  ASSUME Inv, BeginCycle \/ BeginEvents \/ Commit \/ CycleFails
  PROVE  Inv'
<1> USE DEF Inv
<1>1. UNCHANGED <<row, observing, jobs, status, updated, clock>>
  BY DEF BeginCycle, BeginEvents, Commit, CycleFails, zendesk, tables
<1>2. todo' \subseteq Listed
  <2>1. Active \in SUBSET Statuses /\ Statuses \in SUBSET Statuses
    BY DEF Active, Statuses
  <2>2. CASE BeginCycle
    BY <2>1, <2>2, FetchEffect DEF BeginCycle
  <2>3. CASE BeginEvents
    BY <2>1, <2>3, FetchEffect DEF BeginEvents
  <2>4. CASE Commit \/ CycleFails
    BY <2>4 DEF Commit, CycleFails, Sleep
  <2> QED
    BY <2>2, <2>3, <2>4
<1>3. pc' \in {"sleeping", "open", "events"} /\ comments' = {}
  BY DEF BeginCycle, BeginEvents, Commit, CycleFails, Sleep, OwnComments
<1>4. Types' /\ CurHasRow' /\ OwnComments' /\ OwnKey'
  BY <1>1, <1>2, <1>3 DEF Types, CurHasRow, Busy, OwnComments, OwnKey
<1> QED
  BY <1>1, <1>3, <1>4 DEF InitialOnce, JobsFollowRows, InitialReply

\* _process_open_tickets: the row is committed before the job is published.
LEMMA OpenTicketInv ==
  ASSUME Inv, NEW e \in todo, OpenTicket(e)
  PROVE  Inv'
<1> USE DEF Inv
<1>1. e \in Listed /\ e.id \in Tickets /\ e.status \in Statuses
  BY DEF Types, Listed
<1>2. UNCHANGED <<jobs, status, updated, clock, comments, key>> /\ todo' \subseteq Listed
  BY DEF OpenTicket, zendesk, Types
<1>3. Upsert(e.id, e.status, TRUE)
  BY DEF OpenTicket
<1>4. /\ row' \in [Tickets -> Statuses \cup {"none"}]
      /\ observing' \in [Tickets -> BOOLEAN]
      /\ row'[e.id] # "none"
      /\ \A u \in Tickets, j \in Jobs : j \in JobsOf(u) /\ jobs[j] > 0 => row'[u] # "none"
  BY <1>1, <1>3, RowsSurvive
<1>5. Types' /\ JobsFollowRows'
  BY <1>2, <1>4 DEF Types, JobsFollowRows
<1>6. pc = "open" /\ comments = {}
  BY DEF OpenTicket, OwnComments
<1>7. CASE row[e.id] = "none"
  <2>1. pc' = "initial" /\ cur' = e
    BY <1>7 DEF OpenTicket, IsNew
  <2>2. InitialReply(e.id) \in JobsOf(e.id) /\ InitialReply(e.id) \in Jobs
    BY <1>1 DEF JobsOf, Jobs
  <2>3. ~(jobs[InitialReply(e.id)] > 0) /\ jobs[InitialReply(e.id)] \in Nat
    BY <1>1, <1>7, <2>2 DEF JobsFollowRows, Types
  <2>4. CurHasRow' /\ OwnComments' /\ OwnKey'
    BY <1>1, <1>2, <1>4, <1>6, <2>1 DEF CurHasRow, OwnComments, OwnKey
  <2>5. InitialOnce'
    BY <1>2, <2>1, <2>3 DEF InitialOnce, InitialReply
  <2> QED
    BY <1>5, <2>4, <2>5
<1>8. CASE row[e.id] # "none"
  <2>1. UNCHANGED <<pc, cur>>
    BY <1>8 DEF OpenTicket, IsNew
  <2> QED
    BY <1>2, <1>5, <1>6, <2>1 DEF CurHasRow, Busy, OwnComments, OwnKey, InitialOnce,
       InitialReply
<1> QED
  BY <1>7, <1>8

\* The one publication of the initial reply.
LEMMA PublishInitialInv ==
  ASSUME Inv, PublishInitial
  PROVE  Inv'
<1> USE DEF Inv
<1> DEFINE j == InitialReply(cur.id)
<1>1. cur \in Listed /\ cur.id \in Tickets /\ row[cur.id] # "none" /\ jobs[j] = 0
  BY DEF PublishInitial, CurHasRow, Busy, Listed, InitialOnce
<1>2. j \in Jobs /\ j \in JobsOf(cur.id)
  BY <1>1 DEF Jobs, JobsOf
<1>3. PublishJob(j)
  BY DEF PublishInitial
<1>4. /\ jobs' \in [Jobs -> Nat]
      /\ jobs'[j] <= MaxPublishAttempts
      /\ \A k \in Jobs : k # j => jobs'[k] = jobs[k]
  <2> HIDE DEF j
  <2> QED
    BY <1>1, <1>2, <1>3, PublishEffect, PollerAssumption DEF Types
<1>5. UNCHANGED <<row, observing, todo, status, updated, clock, comments>> /\ pc' = "open" /\ comments = {}
  BY DEF PublishInitial, zendesk, tables, OwnComments
<1>6. JobsFollowRows'
  <2> SUFFICES ASSUME NEW t \in Tickets, NEW k \in Jobs, k \in JobsOf(t), jobs'[k] > 0
               PROVE  row[t] # "none"
    BY <1>5 DEF JobsFollowRows
  <2>1. CASE k = j
    BY <1>1, <2>1, JobsAreOwned
  <2>2. CASE k # j
    BY <1>4, <2>2 DEF JobsFollowRows
  <2> QED
    BY <2>1, <2>2
<1>7. \A t \in Tickets : InitialReply(t) \in Jobs /\ (t # cur.id => InitialReply(t) # j)
  BY DEF Jobs, InitialReply
<1>8. InitialOnce'
  BY <1>4, <1>5, <1>7 DEF InitialOnce, InitialReply
<1>9. Types'
  BY <1>4, <1>5 DEF Types
<1> QED
  BY <1>5, <1>6, <1>8, <1>9 DEF CurHasRow, Busy, OwnComments, OwnKey


\* _iter_events: the tickets that bring no event.
LEMMA SkipInv ==
  ASSUME Inv, NEW e \in todo, SkipUnknown(e) \/ SkipUnobserved(e)
  PROVE  Inv'
<1> USE DEF Inv
<1>1. UNCHANGED <<jobs, status, updated, clock, comments, pc, cur, key>> /\ todo' \subseteq Listed
      /\ pc = "events"
  BY DEF SkipUnknown, SkipUnobserved, zendesk, tables, Types
<1>2. /\ row' \in [Tickets -> Statuses \cup {"none"}]
      /\ observing' \in [Tickets -> BOOLEAN]
      /\ \A u \in Tickets, j \in Jobs : j \in JobsOf(u) /\ jobs[j] > 0 => row'[u] # "none"
  <2>1. CASE SkipUnknown(e)
    BY <2>1 DEF SkipUnknown, tables, Types, JobsFollowRows
  <2>2. CASE SkipUnobserved(e)
    <3>1. e.id \in Tickets /\ e.status \in Statuses
      BY DEF Types, Listed
    <3>2. Upsert(e.id, e.status, TRUE)
      BY <2>2 DEF SkipUnobserved
    <3> QED
      BY <3>1, <3>2, RowsSurvive
  <2> QED
    BY <2>1, <2>2
<1> QED
  BY <1>1, <1>2 DEF Types, CurHasRow, Busy, OwnComments, OwnKey, InitialOnce,
     InitialReply, JobsFollowRows

\* _iter_events: a known, observed ticket is taken up, with a status event or not.
LEMMA TakeUpInv ==
  ASSUME Inv, NEW e \in todo, StatusEvent(e) \/ NoStatusChange(e)
  PROVE  Inv'
<1> USE DEF Inv
<1>1. UNCHANGED <<row, observing, jobs, status, updated, clock, comments>> /\ todo' \subseteq Listed
      /\ cur' = e /\ comments = {}
  BY DEF StatusEvent, NoStatusChange, zendesk, tables, Types, OwnComments
<1>2. e \in Listed /\ row[e.id] # "none"
  BY DEF StatusEvent, NoStatusChange, Types, Listed, Statuses
<1>3. (pc' \in {"publish", "update"} /\ key' = StatusKey(e)) \/ pc' = "fetch"
  BY DEF StatusEvent, InsertEvent, NoStatusChange, SameStatus
<1> QED
  BY <1>1, <1>2, <1>3 DEF Types, CurHasRow, OwnComments, OwnKey, KeysOf, InitialOnce,
     InitialReply, JobsFollowRows

\* The comments of the ticket, one after the other.
LEMMA CommentsInv ==
  ASSUME Inv, FetchComments \/ EndComments \/ \E c \in Comments : NextComment(c)
  PROVE  Inv'
<1> USE DEF Inv
<1>1. CASE FetchComments
  <2>1. UNCHANGED <<row, observing, jobs, status, updated, clock, todo, cur>> /\ pc' = "comments"
        /\ pc = "fetch" /\ comments' \subseteq Comments /\ \A c \in comments' : TicketOf[c] = cur.id
    BY <1>1 DEF FetchComments, zendesk, tables
  <2> QED
    BY <2>1 DEF Types, CurHasRow, Busy, OwnComments, OwnKey, InitialOnce,
       InitialReply, JobsFollowRows
<1>2. CASE EndComments
  <2>1. UNCHANGED <<row, observing, jobs, status, updated, clock, todo>> /\ pc' = "events"
        /\ comments = {} /\ comments' = {}
    BY <1>2 DEF EndComments, zendesk, tables
  <2> QED
    BY <2>1 DEF Types, CurHasRow, Busy, OwnComments, OwnKey, InitialOnce,
       InitialReply, JobsFollowRows
<1>3. ASSUME NEW c \in Comments, NextComment(c)
      PROVE  Inv'
  <2>1. UNCHANGED <<row, observing, jobs, status, updated, clock, todo, cur>>
        /\ pc = "comments" /\ pc' \in {"publish", "update"} /\ c \in comments
        /\ comments' \subseteq comments /\ key' = CommentKey(c)
    BY <1>3 DEF NextComment, InsertEvent, zendesk, tables
  <2>2. key' \in KeysOf(cur)
    BY <2>1 DEF KeysOf, OwnComments
  <2>3. OwnKey'
    BY <2>1, <2>2 DEF OwnKey, KeysOf, StatusKey, CommentKey
  <2> QED
    BY <2>1, <2>3 DEF Types, CurHasRow, Busy, OwnComments, InitialOnce,
       InitialReply, JobsFollowRows
<1> QED
  BY <1>1, <1>2, <1>3

\* A job of an event is a job of the ticket in hand, whose row is there.
LEMMA PublishEventInv ==
  ASSUME Inv, PublishEvent
  PROVE  Inv'
<1> USE DEF Inv
<1> DEFINE j == JobOf(key)
<1>1. cur \in Listed /\ cur.id \in Tickets /\ row[cur.id] # "none" /\ key \in KeysOf(cur)
  BY DEF PublishEvent, CurHasRow, Busy, Listed, OwnKey
<1>2. j \in JobsOf(cur.id) /\ j \in Jobs /\ \A t \in Tickets : j # InitialReply(t)
  BY <1>1, JobOfOwnKey, JobsAreOwned
<1>3. /\ jobs' \in [Jobs -> Nat]
      /\ \A k \in Jobs : k # j => jobs'[k] = jobs[k]
  <2>1. PublishJob(j)
    BY DEF PublishEvent
  <2> HIDE DEF j
  <2> QED
    BY <1>2, <2>1, PublishEffect DEF Types
<1>4. UNCHANGED <<row, observing, todo, status, updated, clock, comments, cur, key>>
      /\ pc = "publish" /\ pc' = "update"
  BY DEF PublishEvent, zendesk, tables
<1>5. JobsFollowRows'
  <2> SUFFICES ASSUME NEW t \in Tickets, NEW k \in Jobs, k \in JobsOf(t), jobs'[k] > 0
               PROVE  row[t] # "none"
    BY <1>4 DEF JobsFollowRows
  <2>1. CASE k = j
    BY <1>1, <1>2, <2>1, JobsAreOwned
  <2>2. CASE k # j
    BY <1>3, <2>2 DEF JobsFollowRows
  <2> QED
    BY <2>1, <2>2
<1>6. InitialOnce'
  <2>1. \A t \in Tickets : InitialReply(t) \in Jobs
    BY DEF Jobs
  <2>2. \A t \in Tickets : jobs'[InitialReply(t)] = jobs[InitialReply(t)]
    BY <1>2, <1>3, <2>1
  <2> QED
    BY <1>4, <2>2 DEF InitialOnce, InitialReply
<1>7. Types'
  BY <1>3, <1>4 DEF Types
<1> QED
  BY <1>4, <1>5, <1>6, <1>7 DEF CurHasRow, Busy, OwnComments, OwnKey, KeysOf, StatusKey, CommentKey

\* _update_db_ticket.
LEMMA UpdateRowInv ==
  ASSUME Inv, UpdateRow
  PROVE  Inv'
<1> USE DEF Inv
<1>1. cur \in Listed /\ cur.id \in Tickets /\ cur.status \in Statuses /\ Upsert(cur.id, cur.status, TRUE)
  BY DEF UpdateRow, CurHasRow, Busy, Listed
<1>2. /\ row' \in [Tickets -> Statuses \cup {"none"}]
      /\ observing' \in [Tickets -> BOOLEAN]
      /\ row'[cur.id] # "none"
      /\ \A u \in Tickets, j \in Jobs : j \in JobsOf(u) /\ jobs[j] > 0 => row'[u] # "none"
  BY <1>1, RowsSurvive
<1>3. UNCHANGED <<jobs, todo, status, updated, clock, comments, cur, key>>
      /\ pc' \in {"fetch", "comments"}
  BY DEF UpdateRow, zendesk
<1> QED
  BY <1>1, <1>2, <1>3 DEF Types, CurHasRow, OwnComments, OwnKey, InitialOnce,
     InitialReply, JobsFollowRows

----------------------------------------------------------------------------
\* Every step keeps the invariant.
LEMMA NextInv ==
  ASSUME Inv, [Next]_vars
  PROVE  Inv'
<1>1. CASE Tick \/ Zendesk
  BY <1>1, ZendeskInv
<1>2. CASE Workers
  BY <1>2, WorkersInv
<1>3. CASE BeginCycle \/ BeginEvents \/ Commit \/ CycleFails
  BY <1>3, PhaseInv
<1>4. CASE (\E e \in todo : OpenTicket(e)) \/ PublishInitial
  BY <1>4, OpenTicketInv, PublishInitialInv
<1>5. CASE \E e \in todo : SkipUnknown(e) \/ SkipUnobserved(e) \/ StatusEvent(e) \/ NoStatusChange(e)
  BY <1>5, SkipInv, TakeUpInv
<1>6. CASE FetchComments \/ EndComments \/ \E c \in Comments : NextComment(c)
  BY <1>6, CommentsInv
<1>7. CASE PublishEvent \/ UpdateRow
  BY <1>7, PublishEventInv, UpdateRowInv
<1>8. CASE UNCHANGED vars
  <2>1. UNCHANGED inspected
    BY <1>8 DEF vars, inspected
  <2> QED
    BY <2>1, InspectedInv
<1> QED
  BY <1>1, <1>2, <1>3, <1>4, <1>5, <1>6, <1>7, <1>8 DEF Next, Poll, OpenPhase, EventPhase

\* No step observes a ticket again that is not observed.
LEMMA NextKeepsUnobserved ==
  ASSUME Inv, [Next]_vars
  PROVE  [\A t \in Tickets : ~observing[t] => ~observing'[t]]_vars
<1> SUFFICES ASSUME Next
             PROVE  \A t \in Tickets : ~observing[t] => ~observing'[t]
  OBVIOUS
<1>1. Types
  BY DEF Inv
<1>2. CASE UNCHANGED observing
  BY <1>2
<1>3. CASE \E t \in Tickets, s \in Statuses, observe \in BOOLEAN : Upsert(t, s, observe)
  BY <1>1, <1>3, UpsertEffect
<1>4. CASE \E t \in Tickets : CloseTicket(t)
  BY <1>1, <1>4 DEF CloseTicket, Types
<1>5. CASE Tick \/ Zendesk
  BY <1>5, <1>2 DEF Tick, Zendesk, CreateTicket, PostComment, SetStatus, Appears, tables
<1>6. CASE \E t \in Tickets : FilterTicket(t)
  BY <1>6, <1>3 DEF FilterTicket, Statuses
<1>7. CASE \/ \E c \in Comments : StoreConversation(c)
           \/ \E t \in Tickets, time \in 1..clock : RefreshComments(t, time)
  BY <1>7, <1>2 DEF StoreConversation, RefreshComments
<1>8. CASE BeginCycle \/ BeginEvents \/ Commit \/ CycleFails \/ PublishInitial \/ PublishEvent
           \/ FetchComments \/ EndComments
  BY <1>8, <1>2 DEF BeginCycle, BeginEvents, Commit, CycleFails, PublishInitial, PublishEvent,
     FetchComments, EndComments, tables
<1>9. CASE \E c \in Comments : NextComment(c)
  BY <1>9, <1>2 DEF NextComment, tables
<1>10. CASE UpdateRow
  <2>1. cur.id \in Tickets /\ cur.status \in Statuses /\ Upsert(cur.id, cur.status, TRUE)
    BY <1>10 DEF UpdateRow, Inv, CurHasRow, Busy, Listed
  <2> QED
    BY <1>3, <2>1
<1>11. ASSUME NEW e \in todo,
              OpenTicket(e) \/ SkipUnknown(e) \/ SkipUnobserved(e) \/ StatusEvent(e) \/ NoStatusChange(e)
       PROVE  \A t \in Tickets : ~observing[t] => ~observing'[t]
  <2>1. e.id \in Tickets /\ e.status \in Statuses
    BY <1>1 DEF Types, Listed
  <2>2. CASE OpenTicket(e) \/ SkipUnobserved(e)
    BY <1>3, <2>1, <2>2 DEF OpenTicket, SkipUnobserved
  <2>3. CASE SkipUnknown(e) \/ StatusEvent(e) \/ NoStatusChange(e)
    BY <1>2, <2>3 DEF SkipUnknown, StatusEvent, NoStatusChange, tables
  <2> QED
    BY <1>11, <2>2, <2>3
<1> QED
  BY <1>4, <1>5, <1>6, <1>7, <1>8, <1>9, <1>10, <1>11
     DEF Next, Workers, Poll, OpenPhase, EventPhase

\* The inductive invariant of the poller.
THEOREM PollerInvariant == Spec => []Inv
<1>1. Init => Inv
  BY InitInv
<1>2. Inv /\ [Next]_vars => Inv'
  BY NextInv
<1> QED
  BY <1>1, <1>2, PTL DEF Spec

\* poller.py: a worker that takes a job finds the row of its ticket.
THEOREM RowsPrecedeJobs == Spec => []JobsFollowRows
<1>1. Inv => JobsFollowRows
  BY DEF Inv
<1> QED
  BY <1>1, PollerInvariant, PTL

\* tickets.py: observing never changes from False to True.
THEOREM UnobservedForGood == Spec => ObservingNeverRestored
<1>1. Inv /\ [Next]_vars => [\A t \in Tickets : ~observing[t] => ~observing'[t]]_vars
  BY NextKeepsUnobserved
<1> QED
  BY <1>1, PollerInvariant, PTL DEF Spec, ObservingNeverRestored

----------------------------------------------------------------------------
\* Type correctness.  Types has the variables that Inv looks at.

LEMMA InitTypes == Init => TypeOK
<1> SUFFICES ASSUME Init PROVE TypeOK
  OBVIOUS
<1>1. 0 \in Times /\ 1 \in Times /\ "sleeping" \in Steps /\ 0 \in 0..MaxFaults /\ 0 \in Nat
  BY PollerAssumption DEF Times, Steps
<1> QED
  BY <1>1 DEF Init, TypeOK, EmptyTx

\* A checkpoint is a second up to the present one, and stays what it was once there is one.
LEMMA CheckpointEffect ==
  ASSUME clock \in Times, NEW saved \in Times, saved <= clock
  PROVE  /\ Checkpoint(saved) \in Times /\ Checkpoint(saved) <= clock
         /\ saved # 0 => Checkpoint(saved) = saved
  BY PollerAssumption DEF Checkpoint, NewCheckpoint, Times

LEMMA CheckpointType ==
  ASSUME clock \in Times, NEW saved \in Times
  PROVE  Checkpoint(saved) \in Times
  BY PollerAssumption DEF Checkpoint, NewCheckpoint, Times

LEMMA EventKeyTypes ==
  /\ \A c \in Comments : CommentKey(c) \in EventKeys
  /\ \A e \in Listed : StatusKey(e) \in EventKeys
  /\ \A c \in Comments : ~IsStatus(CommentKey(c)) /\ TimeOf(CommentKey(c)) = posted[c]
  /\ \A e \in Listed : IsStatus(StatusKey(e)) /\ TimeOf(StatusKey(e)) = e.updated
  BY PollerAssumption
     DEF EventKeys, CommentKeys, CommentKey, StatusKey, Listed, Times, IsStatus, TimeOf

\* The time of an event is a time.
LEMMA TimeOfType ==
  ASSUME TypeOK, NEW k \in EventKeys
  PROVE  TimeOf(k) \in Times
<1>1. CASE k \in CommentKeys
  BY <1>1, EventKeyTypes DEF CommentKeys, TypeOK
<1>2. ASSUME NEW t \in Tickets, NEW u \in Times, k = <<t, "status", u>>
      PROVE  TimeOf(k) \in Times
  BY <1>2 DEF TimeOf, IsStatus
<1> QED
  BY <1>1, <1>2 DEF EventKeys

LEMMA FetchTypes ==
  ASSUME TypeOK, NEW after, NEW statuses, Fetch(after, statuses)
  PROVE  faults' \in 0..MaxFaults /\ (cut' = TRUE \/ cut' = cut)
<1>1. faults \in 0..MaxFaults /\ (faults' = faults \/ (faults < MaxFaults /\ faults' = faults + 1))
  BY DEF Fetch, TypeOK
<1>2. faults' \in 0..MaxFaults
  BY <1>1, PollerAssumption
<1> QED
  BY <1>2, Zenon DEF Fetch

LEMMA PublishTypes ==
  ASSUME TypeOK, NEW j \in Jobs, PublishJob(j)
  PROVE  refused' \subseteq Jobs /\ faults' \in 0..MaxFaults
<1>1. faults' \in Nat
  BY PublishFaults, PollerAssumption DEF TypeOK
<1> QED
  BY <1>1, PollerAssumption DEF PublishJob, TypeOK

LEMMA TxTypes ==
  ASSUME TypeOK, NEW k \in EventKeys, NEW time \in Times
  PROVE  /\ [tx EXCEPT !.events = @ \cup {k}] \in [events : SUBSET EventKeys, cpTickets : Times]
         /\ [tx EXCEPT !.cpTickets = time] \in [events : SUBSET EventKeys, cpTickets : Times]
         /\ EmptyTx \in [events : SUBSET EventKeys, cpTickets : Times]
         /\ [tx EXCEPT !.events = @ \cup {k}].events = tx.events \cup {k}
         /\ [tx EXCEPT !.events = @ \cup {k}].cpTickets = tx.cpTickets
         /\ [tx EXCEPT !.cpTickets = time].events = tx.events
         /\ [tx EXCEPT !.cpTickets = time].cpTickets = time
<1>1. tx \in [events : SUBSET EventKeys, cpTickets : Times]
  BY DEF TypeOK
<1>2. 0 \in Times
  BY PollerAssumption DEF Times
<1> QED
  BY <1>1, <1>2 DEF EmptyTx

LEMMA InsertTypes ==
  ASSUME TypeOK, NEW k \in EventKeys, NEW wantsJob \in BOOLEAN, InsertEvent(k, wantsJob)
  PROVE  /\ key' \in EventKeys /\ pc' \in Steps
         /\ tx' \in [events : SUBSET EventKeys, cpTickets : Times]
  BY DEF InsertEvent, TypeOK, Steps

\* What Zendesk and the workers change.
LEMMA EnvironmentTypes ==
  ASSUME Inv, TypeOK, Types', Tick \/ Zendesk \/ Workers
  PROVE  TypeOK'
<1> USE DEF TypeOK
<1>1. UNCHANGED <<cpTickets, cpEvents, pc, cur, key, from, latest, initialIds, tx, refused,
                  skipped, cut, faults>>
  <2>1. CASE Tick \/ Zendesk
    BY <2>1 DEF Tick, Zendesk, CreateTicket, PostComment, SetStatus, Appears, tables, cycle, history
  <2>2. CASE Workers
    BY <2>2 DEF Workers, CloseTicket, FilterTicket, StoreConversation, RefreshComments, cycle, history
  <2> QED
    BY <2>1, <2>2
<1>2. posted' \in [Comments -> Times] /\ hidden' \subseteq Tickets
  <2>1. CASE Tick \/ Workers
    BY <2>1 DEF Tick, Workers, CloseTicket, FilterTicket, StoreConversation, RefreshComments, zendesk
  <2>2. CASE \E c \in Comments : CreateTicket(c) \/ PostComment(c)
    BY <2>2, PollerAssumption DEF CreateTicket, PostComment, Touch
  <2>3. CASE \E t \in Tickets : (\E s \in Statuses : SetStatus(t, s)) \/ Appears(t)
    BY <2>3 DEF SetStatus, Appears, Touch
  <2> QED
    BY <2>1, <2>2, <2>3 DEF Zendesk
<1>3. fresh' \subseteq Comments
  <2>1. CASE \E c \in Comments : PostComment(c)
    BY <2>1 DEF PostComment
  <2>2. CASE \/ Tick \/ \E c \in Comments : CreateTicket(c)
             \/ \E t \in Tickets : (\E s \in Statuses : SetStatus(t, s)) \/ Appears(t)
    BY <2>2 DEF Tick, CreateTicket, SetStatus, Appears, history
  <2>3. CASE Workers
    BY <2>3 DEF Workers, CloseTicket, FilterTicket, StoreConversation, RefreshComments, history
  <2> QED
    BY <2>1, <2>2, <2>3 DEF Zendesk
<1>4. events' \subseteq EventKeys /\ read' \subseteq Comments /\ filed' \subseteq Comments
  <2>1. CASE Tick \/ Zendesk \/ \E t \in Tickets : CloseTicket(t) \/ FilterTicket(t)
    BY <2>1 DEF Tick, Zendesk, CreateTicket, PostComment, SetStatus, Appears, CloseTicket,
       FilterTicket, tables, history
  <2>2. CASE \E c \in Comments : StoreConversation(c)
    BY <2>2, EventKeyTypes DEF StoreConversation
  <2>3. CASE \E t \in Tickets, time \in 1..clock : RefreshComments(t, time)
    BY <2>3, EventKeyTypes DEF RefreshComments
  <2> QED
    BY <2>1, <2>2, <2>3 DEF Workers
<1>5. missed' \subseteq Tickets
  <2>1. ASSUME NEW t, NEW s, Touch(t, s)
        PROVE  missed' \subseteq Tickets
    BY <2>1 DEF Touch
  <2>2. CASE \/ \E c \in Comments : CreateTicket(c) \/ PostComment(c)
             \/ \E t \in Tickets, s \in Statuses : SetStatus(t, s)
    BY <2>1, <2>2 DEF CreateTicket, PostComment, SetStatus
  <2>3. CASE Tick \/ Workers \/ \E t \in Tickets : Appears(t)
    BY <2>3 DEF Tick, Appears, Workers, CloseTicket, FilterTicket, StoreConversation, RefreshComments,
       history
  <2> QED
    BY <2>2, <2>3 DEF Zendesk
<1> QED
  BY <1>1, <1>2, <1>3, <1>4, <1>5 DEF Types

\* What a cycle changes.
LEMMA CycleTypes ==
  ASSUME Inv, TypeOK, Types', Poll \/ CycleFails
  PROVE  TypeOK'
<1> USE DEF TypeOK
<1>0. fresh' \subseteq Comments /\ missed' \subseteq Tickets
  <2>1. CASE BeginCycle \/ BeginEvents
    BY <2>1 DEF BeginCycle, BeginEvents
  <2>2. CASE ~BeginCycle /\ ~BeginEvents
    BY <2>2 DEF Poll, OpenPhase, EventPhase, OpenTicket, PublishInitial, SkipUnknown, SkipUnobserved,
       StatusEvent, NoStatusChange, FetchComments, EndComments, NextComment, PublishEvent, UpdateRow,
       Commit, CycleFails, history
  <2> QED
    BY <2>1, <2>2
<1>1. UNCHANGED <<posted, hidden, read, filed>>
  BY DEF Poll, OpenPhase, EventPhase, BeginCycle, OpenTicket, PublishInitial, BeginEvents,
     SkipUnknown, SkipUnobserved, StatusEvent, NoStatusChange, FetchComments, EndComments,
     NextComment, PublishEvent, UpdateRow, Commit, CycleFails, zendesk, history
<1> DEFINE Others ==
      /\ events' \subseteq EventKeys /\ cpTickets' \in Times /\ cpEvents' \in Times
      /\ pc' \in Steps /\ cur' \in Listed \cup {NoListed} /\ key' \in EventKeys \cup {NoKey}
      /\ from' \in Times /\ latest' \in Times /\ initialIds' \subseteq Tickets
      /\ tx' \in [events : SUBSET EventKeys, cpTickets : Times]
      /\ refused' \subseteq Jobs /\ skipped' \subseteq Comments
      /\ faults' \in 0..MaxFaults
<1>2. ASSUME BeginCycle
      PROVE  Others
  <2>1. faults' \in 0..MaxFaults
    BY <1>2, FetchTypes DEF BeginCycle
  <2>2. Checkpoint(cpTickets) \in Times /\ Checkpoint(cpEvents) \in Times
    BY CheckpointType
  <2>3. EmptyTx \in [events : SUBSET EventKeys, cpTickets : Times]
    BY PollerAssumption DEF EmptyTx, Times
  <2>4. UNCHANGED <<events, cpTickets, cpEvents, cur, key, refused, skipped>>
    BY <1>2 DEF BeginCycle, tables
  <2>5. pc' \in Steps /\ latest' \in Times /\ from' \in Times /\ tx' = EmptyTx /\ initialIds' = {}
    BY <1>2, <2>2 DEF BeginCycle, Steps
  <2> QED
    BY <2>1, <2>3, <2>4, <2>5
<1>3. ASSUME BeginEvents
      PROVE  Others
  <2>1. faults' \in 0..MaxFaults
    BY <1>3, FetchTypes DEF BeginEvents
  <2> QED
    BY <1>3, <2>1, TxTypes DEF BeginEvents, tables, Steps
<1>4. ASSUME Commit \/ CycleFails
      PROVE  Others
  BY <1>4, PollerAssumption
     DEF Commit, CycleFails, Sleep, Rollback, EmptyTx, Steps, Times, zendesk, history
<1>5. ASSUME NEW e \in todo, OpenTicket(e) \/ SkipUnknown(e) \/ SkipUnobserved(e)
      PROVE  Others
  <2>1. LatestSeen(e.updated) \in Times /\ e \in Listed /\ e.id \in Tickets
    BY DEF LatestSeen, Later, Listed
  <2> QED
    BY <1>5, <2>1 DEF OpenTicket, SkipUnknown, SkipUnobserved, tables, history, Steps, zendesk
<1>6. ASSUME NEW e \in todo, StatusEvent(e) \/ NoStatusChange(e)
      PROVE  Others
  <2>1. StatusKey(e) \in EventKeys /\ e \in Listed
    BY EventKeyTypes
  <2>2. CASE StatusEvent(e)
    <3>1. InsertEvent(StatusKey(e), e.status = "solved") /\ (e.status = "solved") \in BOOLEAN
      BY <2>2 DEF StatusEvent
    <3>2. /\ key' \in EventKeys /\ pc' \in Steps
          /\ tx' \in [events : SUBSET EventKeys, cpTickets : Times]
      BY <2>1, <3>1, InsertTypes
    <3> QED
      BY <2>1, <2>2, <3>2 DEF StatusEvent, tables, history
  <2>3. CASE NoStatusChange(e)
    BY <2>1, <2>3 DEF NoStatusChange, SameStatus, Steps, tables, history
  <2> QED
    BY <1>6, <2>2, <2>3
<1>7. ASSUME FetchComments \/ EndComments
      PROVE  Others
  <2>1. pc' \in Steps /\ cur' \in Listed \cup {NoListed}
    BY <1>7 DEF FetchComments, EndComments, Steps
  <2>2. UNCHANGED <<events, cpTickets, cpEvents, key, from, latest, initialIds, tx, refused,
                    skipped, faults>>
    BY <1>7 DEF FetchComments, EndComments, tables, history
  <2> QED
    BY <2>1, <2>2
<1>8. ASSUME NEW c \in Comments, NextComment(c)
      PROVE  Others
  <2>1. CommentKey(c) \in EventKeys /\ WantsJob(c) \in BOOLEAN /\ InsertEvent(CommentKey(c), WantsJob(c))
    BY <1>8, EventKeyTypes DEF NextComment, WantsJob, SkipsFollowUp
  <2>2. /\ key' \in EventKeys /\ pc' \in Steps
        /\ tx' \in [events : SUBSET EventKeys, cpTickets : Times]
    BY <2>1, InsertTypes
  <2> QED
    BY <1>8, <2>2 DEF NextComment, tables
<1>9. ASSUME PublishInitial \/ PublishEvent
      PROVE  Others
  <2>1. PICK j \in Jobs : PublishJob(j)
    <3>1. CASE PublishInitial
      BY <3>1 DEF PublishInitial, Inv, CurHasRow, Busy, Listed, Jobs
    <3>2. CASE PublishEvent
      <4>1. cur \in Listed /\ cur.id \in Tickets /\ key \in KeysOf(cur)
        BY <3>2 DEF PublishEvent, Inv, CurHasRow, Busy, Listed, OwnKey
      <4> QED
        BY <3>2, <4>1, JobOfOwnKey, JobsAreOwned DEF PublishEvent
    <3> QED
      BY <1>9, <3>1, <3>2
  <2> QED
    <3>1. refused' \subseteq Jobs /\ faults' \in 0..MaxFaults
      BY <2>1, PublishTypes
    <3>2. pc' \in Steps /\ cur' \in Listed \cup {NoListed}
      BY <1>9 DEF PublishInitial, PublishEvent, Steps
    <3>3. UNCHANGED <<events, cpTickets, cpEvents, key, from, latest, initialIds, tx, skipped>>
      BY <1>9 DEF PublishInitial, PublishEvent, tables, history
    <3> QED
      BY <3>1, <3>2, <3>3
<1>10. ASSUME UpdateRow
      PROVE  Others
  <2>1. TimeOf(key) \in Times
    <3>1. cur \in Listed /\ key \in KeysOf(cur)
      BY <1>10 DEF UpdateRow, Inv, CurHasRow, Busy, OwnKey
    <3>2. key \in EventKeys
      BY <3>1, EventKeyTypes DEF KeysOf
    <3> QED
      BY <3>2, TimeOfType
  <2>2. Later(latest, TimeOf(key)) \in Times
    BY <2>1 DEF Later
  <2> QED
    <3>1. pc' \in Steps /\ latest' \in Times
      BY <1>10, <2>2 DEF UpdateRow, Steps
    <3>2. UNCHANGED <<events, cpTickets, cpEvents, cur, key, from, initialIds, tx, refused,
                      skipped, faults>>
      BY <1>10 DEF UpdateRow, history
    <3> QED
      BY <3>1, <3>2
<1>11. Others
  BY <1>2, <1>3, <1>4, <1>5, <1>6, <1>7, <1>8, <1>9, <1>10 DEF Poll, OpenPhase, EventPhase
<1>12. cut' \in BOOLEAN
  <2>1. ASSUME NEW after, NEW statuses, Fetch(after, statuses)
        PROVE  cut' \in BOOLEAN
    BY <2>1, FetchTypes, Zenon
  <2>2. CASE BeginCycle \/ BeginEvents
    BY <2>1, <2>2, Zenon DEF BeginCycle, BeginEvents
  <2>3. CASE ~(BeginCycle \/ BeginEvents)
    <3>1. UNCHANGED cut
      BY <2>3 DEF Poll, OpenPhase, EventPhase, OpenTicket, PublishInitial, SkipUnknown,
         SkipUnobserved, StatusEvent, NoStatusChange, FetchComments, EndComments, NextComment,
         PublishEvent, UpdateRow, Commit, CycleFails, history
    <3> QED
      BY <3>1, Zenon
  <2> QED
    BY <2>2, <2>3
<1> QED
  BY <1>0, <1>1, <1>11, <1>12 DEF Types

LEMMA NextTypes ==
  ASSUME Inv, TypeOK, [Next]_vars
  PROVE  TypeOK'
<1>1. Types'
  BY NextInv DEF Inv
<1>2. CASE UNCHANGED vars
  BY <1>2 DEF vars, TypeOK
<1> QED
  BY <1>1, <1>2, EnvironmentTypes, CycleTypes DEF Next

\* Type correctness of the poller.
THEOREM PollerTypes == Spec => []TypeOK
<1>1. Init => TypeOK
  BY InitTypes
<1>2. Inv /\ TypeOK /\ [Next]_vars => TypeOK'
  BY NextTypes
<1> QED
  BY <1>1, <1>2, PollerInvariant, PTL DEF Spec

----------------------------------------------------------------------------
\* What is listed is a past state of Zendesk, and no time is ahead of the clock.

\* A listed ticket is the ticket as it is or as it was; within one second a
\* customer's comment alone can have followed.
OfItsTicket(e) ==
    /\ e.updated <= updated[e.id]
    /\ e.updated = updated[e.id] => status[e.id] \in {e.status, "open"}

ZendeskPast ==
    /\ \A t \in Tickets : updated[t] <= clock
    /\ \A c \in Comments :
        posted[c] > 0 => posted[c] <= updated[TicketOf[c]] /\ status[TicketOf[c]] # "none"
    /\ LateListing \/ hidden = {}

ListsPast ==
    /\ \A e \in todo : OfItsTicket(e)
    /\ \A e, f \in todo : e.id = f.id => e = f
    /\ pc \in {"open", "initial"} => \A e \in todo : e.status = "open"
    /\ cur.updated <= clock

Horizon ==
    /\ cpTickets <= clock /\ cpEvents <= clock
    /\ from <= clock /\ latest <= clock /\ tx.cpTickets <= clock

Past == ZendeskPast /\ ListsPast /\ Horizon

\* What a listing contains.
LEMMA FetchLists ==
  ASSUME TypeOK, NEW after, NEW statuses, Fetch(after, statuses)
  PROVE  /\ \A e \in todo' :
              /\ e.id \in Tickets /\ e.status = status[e.id] /\ e.updated = updated[e.id]
              /\ e = [id |-> e.id, status |-> status[e.id], updated |-> updated[e.id]]
              /\ e.status \in statuses /\ e.updated >= after
<1>1. todo' \subseteq Listing(after, statuses)
  BY DEF Fetch
<1> QED
  BY <1>1 DEF Listing, ListedSince, TypeOK

\* How the steps of a cycle and of the workers change the list and the ticket in hand.
LEMMA ListSteps ==
  ASSUME TypeOK, Poll \/ CycleFails \/ Workers
  PROVE  /\ UNCHANGED <<clock, status, updated, posted, hidden>>
         /\ cur' = cur \/ cur' = NoListed \/ cur' \in todo
         /\ \/ todo' \subseteq todo /\ (pc' \in {"open", "initial"} => pc \in {"open", "initial"})
            \/ pc' = "events" /\ Fetch(from, Statuses)
            \/ pc' = "open" /\ Fetch(Checkpoint(cpTickets), Active)
<1>1. UNCHANGED <<clock, status, updated, posted, hidden>>
  BY DEF Poll, OpenPhase, EventPhase, BeginCycle, OpenTicket, PublishInitial, BeginEvents,
     SkipUnknown, SkipUnobserved, StatusEvent, NoStatusChange, FetchComments, EndComments,
     NextComment, PublishEvent, UpdateRow, Commit, CycleFails, Workers, CloseTicket,
     FilterTicket, StoreConversation, RefreshComments, zendesk
<1>2. CASE BeginCycle \/ BeginEvents
  BY <1>1, <1>2 DEF BeginCycle, BeginEvents
<1>3. CASE Commit \/ CycleFails
  BY <1>1, <1>3 DEF Commit, CycleFails, Sleep
<1>4. CASE Workers
  BY <1>1, <1>4 DEF Workers, CloseTicket, FilterTicket, StoreConversation, RefreshComments, cycle
<1>5. CASE OpenPhase \/ EventPhase
  BY <1>1, <1>5 DEF OpenPhase, EventPhase, OpenTicket, PublishInitial, BeginEvents,
     SkipUnknown, SkipUnobserved, StatusEvent, NoStatusChange, SameStatus, FetchComments,
     EndComments, NextComment, InsertEvent, PublishEvent, UpdateRow
<1> QED
  BY <1>2, <1>3, <1>4, <1>5 DEF Poll

LEMMA InitPast == Init => Past
<1> SUFFICES ASSUME Init PROVE Past
  OBVIOUS
<1> QED
  BY PollerAssumption DEF Init, Past, ZendeskPast, ListsPast, Horizon, EmptyTx, NoListed, Times

\* A ticket is updated now, and to a status that no listing of this second denies.
LEMMA TouchPast ==
  ASSUME TypeOK, Past, NEW t \in Tickets, NEW s \in Statuses, Touch(t, s),
         s = "open" \/ s = status[t] \/ updated[t] < clock,
         UNCHANGED <<clock, todo, cur, pc, cpTickets, cpEvents, from, latest, tx>>,
         \/ UNCHANGED posted
         \/ \E c \in Comments : TicketOf[c] = t /\ posted' = [posted EXCEPT ![c] = clock]
  PROVE  Past'
<1> USE DEF Past, TypeOK
<1>1. /\ status' = [status EXCEPT ![t] = s] /\ updated' = [updated EXCEPT ![t] = clock]
      /\ status'[t] = s /\ updated'[t] = clock /\ s # "none"
      /\ \A u \in Tickets : u # t => status'[u] = status[u] /\ updated'[u] = updated[u]
  BY DEF Touch, Statuses
<1>2. clock \in Nat /\ \A u \in Tickets : updated[u] \in Nat
  BY PollerAssumption DEF Times
<1>3. \A u \in Tickets : updated'[u] <= clock /\ updated[u] <= updated'[u]
  BY <1>1, <1>2 DEF ZendeskPast
<1>4. \A c \in Comments : posted'[c] > 0 => posted'[c] <= updated'[TicketOf[c]]
                                            /\ status'[TicketOf[c]] # "none"
  <2> SUFFICES ASSUME NEW c \in Comments, posted'[c] > 0
               PROVE  posted'[c] <= updated'[TicketOf[c]] /\ status'[TicketOf[c]] # "none"
    OBVIOUS
  <2>1. posted[c] \in Nat /\ TicketOf[c] \in Tickets
    BY PollerAssumption DEF Times
  <2>2. CASE posted'[c] = posted[c]
    BY <1>1, <1>2, <1>3, <2>1, <2>2 DEF ZendeskPast
  <2>3. CASE TicketOf[c] = t /\ posted'[c] = clock
    BY <1>1, <1>2, <2>3
  <2> QED
    BY <2>2, <2>3
<1>5. LateListing \/ hidden' = {}
  BY DEF Touch, ZendeskPast
<1>6. ASSUME NEW e \in todo
      PROVE  OfItsTicket(e)'
  <2>1. e.id \in Tickets /\ e.updated \in Nat /\ OfItsTicket(e)
    BY PollerAssumption DEF Listed, Times, ListsPast
  <2>2. CASE e.id # t
    BY <1>1, <2>1, <2>2 DEF OfItsTicket
  <2>3. CASE e.id = t
    BY <1>1, <1>2, <1>3, <2>1, <2>3 DEF OfItsTicket, ZendeskPast
  <2> QED
    BY <2>2, <2>3
<1>7. ZendeskPast'
  BY <1>3, <1>4, <1>5 DEF ZendeskPast
<1>8. ListsPast'
  BY <1>6 DEF ListsPast
<1> QED
  BY <1>7, <1>8 DEF Horizon

LEMMA ZendeskKeepsPast ==
  ASSUME Inv, TypeOK, Past, Tick \/ Zendesk
  PROVE  Past'
<1> USE DEF Past, TypeOK
<1>1. UNCHANGED <<todo, cur, pc, cpTickets, cpEvents, from, latest, tx>>
  BY DEF Tick, Zendesk, CreateTicket, PostComment, SetStatus, Appears, tables, cycle
<1>2. CASE Tick
  <2>1. UNCHANGED <<status, updated, posted, hidden>> /\ clock' = clock + 1
    BY <1>2 DEF Tick
  <2>2. clock \in Nat /\ (\A u \in Tickets : updated[u] \in Nat) /\ cur.updated \in Nat
        /\ cpTickets \in Nat /\ cpEvents \in Nat /\ from \in Nat /\ latest \in Nat /\ tx.cpTickets \in Nat
    BY PollerAssumption DEF Times, Listed, NoListed
  <2>3. ZendeskPast'
    BY <2>1, <2>2 DEF ZendeskPast
  <2>4. ListsPast'
    BY <1>1, <2>1, <2>2 DEF ListsPast, OfItsTicket
  <2> QED
    BY <1>1, <2>1, <2>2, <2>3, <2>4 DEF Horizon
<1>3. ASSUME NEW c \in Comments, CreateTicket(c) \/ PostComment(c)
      PROVE  Past'
  <2> DEFINE t == TicketOf[c]
  <2>1. t \in Tickets /\ UNCHANGED clock /\ posted' = [posted EXCEPT ![c] = clock]
    BY <1>3, PollerAssumption DEF CreateTicket, PostComment
  <2>2. PICK s \in Statuses : Touch(t, s) /\ (s = "open" \/ s = status[t])
    BY <1>3, <2>1 DEF CreateTicket, PostComment, Statuses
  <2> QED
    BY <1>1, <2>1, <2>2, TouchPast
<1>4. ASSUME NEW t \in Tickets, NEW s \in Statuses, SetStatus(t, s)
      PROVE  Past'
  BY <1>1, <1>4, TouchPast DEF SetStatus
<1>5. ASSUME NEW t \in Tickets, Appears(t)
      PROVE  Past'
  BY <1>1, <1>5 DEF Appears, ZendeskPast, ListsPast, OfItsTicket, Horizon
<1> QED
  BY <1>2, <1>3, <1>4, <1>5 DEF Zendesk

\* The list and the ticket in hand.
LEMMA StepsKeepLists ==
  ASSUME Inv, TypeOK, Past, Poll \/ CycleFails \/ Workers
  PROVE  ListsPast'
<1> USE DEF Past, TypeOK
<1>1. UNCHANGED <<clock, status, updated, posted, hidden>>
  BY ListSteps
<1>2. cur'.updated <= clock
  <2>1. cur' = cur \/ cur' = NoListed \/ cur' \in todo
    BY ListSteps
  <2>2. 0 <= clock
    BY PollerAssumption DEF Times
  <2>3. CASE cur' \in todo
    <3>1. cur'.id \in Tickets /\ cur'.updated \in Nat /\ cur'.updated <= updated[cur'.id]
      BY <2>3, PollerAssumption DEF Listed, Times, ListsPast, OfItsTicket
    <3>2. updated[cur'.id] \in Nat /\ updated[cur'.id] <= clock /\ clock \in Nat
      BY <3>1, PollerAssumption DEF ZendeskPast, Times
    <3> QED
      BY <3>1, <3>2
  <2> QED
    BY <2>1, <2>2, <2>3 DEF ListsPast, NoListed
<1>3. CASE todo' \subseteq todo /\ (pc' \in {"open", "initial"} => pc \in {"open", "initial"})
  BY <1>1, <1>2, <1>3 DEF ListsPast, OfItsTicket
<1>4. ASSUME NEW after, NEW statuses, Fetch(after, statuses),
             pc' \in {"open", "initial"} => statuses = Active
      PROVE  ListsPast'
  <2>1. \A e \in todo' :
          /\ e.id \in Tickets /\ e.status = status[e.id] /\ e.updated = updated[e.id]
          /\ e = [id |-> e.id, status |-> status[e.id], updated |-> updated[e.id]]
          /\ e.status \in statuses
    BY <1>4, FetchLists
  <2>2. \A e \in todo' : OfItsTicket(e)'
    <3>1. \A u \in Tickets : updated[u] \in Nat
      BY PollerAssumption DEF Times
    <3> QED
      BY <1>1, <2>1, <3>1 DEF OfItsTicket
  <2>3. \A e, f \in todo' : e.id = f.id => e = f
    BY <2>1
  <2>4. pc' \in {"open", "initial"} => \A e \in todo' : e.status = "open"
    BY <1>4, <2>1 DEF Active
  <2> QED
    BY <1>1, <1>2, <2>2, <2>3, <2>4 DEF ListsPast
<1> QED
  BY <1>3, <1>4, ListSteps

\* The times of a cycle.
LEMMA StepsKeepHorizon ==
  ASSUME Inv, TypeOK, Past, Poll \/ CycleFails \/ Workers
  PROVE  Horizon'
<1> USE DEF Past, TypeOK
<1>1. UNCHANGED <<clock, updated, posted>>
  BY ListSteps
<1>2. clock \in Nat /\ 0 <= clock
  BY PollerAssumption DEF Times
<1>3. CASE UNCHANGED <<cpTickets, cpEvents, from, latest, tx>>
  BY <1>1, <1>3 DEF Horizon
<1>4. CASE BeginCycle
  <2>1. Checkpoint(cpTickets) <= clock /\ Checkpoint(cpEvents) <= clock
    BY CheckpointEffect DEF Horizon
  <2> QED
    BY <1>1, <1>2, <1>4, <2>1 DEF BeginCycle, Horizon, EmptyTx, tables
<1>5. CASE BeginEvents
  <2>1. tx'.cpTickets = latest
    BY <1>5, TxTypes DEF BeginEvents
  <2> QED
    BY <1>1, <1>5, <2>1 DEF BeginEvents, Horizon, tables
<1>6. CASE Commit \/ CycleFails
  BY <1>1, <1>2, <1>6 DEF Commit, CycleFails, Rollback, Sleep, EmptyTx, Horizon
<1>7. ASSUME NEW e \in todo, OpenTicket(e)
      PROVE  Horizon'
  <2>1. e.updated <= clock /\ e.updated \in Nat /\ latest \in Nat
    BY <1>2, PollerAssumption DEF ListsPast, OfItsTicket, ZendeskPast, Listed, Times
  <2>2. LatestSeen(e.updated) <= clock
    BY <1>2, <2>1 DEF LatestSeen, Later, Horizon
  <2> QED
    BY <1>1, <1>7, <2>2 DEF OpenTicket, Horizon
<1>8. ASSUME NEW k \in EventKeys, NEW wantsJob, InsertEvent(k, wantsJob),
             UNCHANGED <<cpTickets, cpEvents, from, latest>>
      PROVE  Horizon'
  <2>1. tx'.cpTickets = tx.cpTickets
    BY <1>8, TxTypes DEF InsertEvent
  <2> QED
    BY <1>1, <1>8, <2>1 DEF Horizon
<1>9. CASE \E e \in todo : StatusEvent(e)
  BY <1>8, <1>9, EventKeyTypes DEF StatusEvent, tables
<1>10. CASE \E c \in Comments : NextComment(c)
  BY <1>8, <1>10, EventKeyTypes DEF NextComment, tables
<1>11. CASE UpdateRow
  <2>1. cur \in Listed /\ key \in KeysOf(cur)
    BY <1>11 DEF UpdateRow, Inv, CurHasRow, Busy, OwnKey
  <2>2. \A c \in Comments : posted[c] <= clock
    <3> SUFFICES ASSUME NEW c \in Comments PROVE posted[c] <= clock
      OBVIOUS
    <3>1. posted[c] \in Nat /\ TicketOf[c] \in Tickets /\ updated[TicketOf[c]] \in Nat
      BY PollerAssumption DEF Times
    <3> QED
      BY <1>2, <3>1 DEF ZendeskPast
  <2>3. TimeOf(key) <= clock
    <3>1. TimeOf(key) = cur.updated \/ \E c \in Comments : TimeOf(key) = posted[c]
      BY <2>1, EventKeyTypes DEF KeysOf
    <3> QED
      BY <2>2, <3>1 DEF ListsPast
  <2>4. Later(latest, TimeOf(key)) <= clock
    BY <2>3 DEF Later, Horizon
  <2> QED
    BY <1>1, <1>11, <2>4 DEF UpdateRow, Horizon
<1>12. CASE \/ Workers \/ PublishInitial \/ PublishEvent \/ FetchComments \/ EndComments
            \/ \E e \in todo : SkipUnknown(e) \/ SkipUnobserved(e) \/ NoStatusChange(e)
  BY <1>3, <1>12 DEF Workers, CloseTicket, FilterTicket, StoreConversation, RefreshComments,
     PublishInitial, PublishEvent, FetchComments, EndComments, SkipUnknown, SkipUnobserved,
     NoStatusChange, tables, cycle
<1> QED
  BY <1>4, <1>5, <1>6, <1>7, <1>9, <1>10, <1>11, <1>12 DEF Poll, OpenPhase, EventPhase

LEMMA NextPast ==
  ASSUME Inv, TypeOK, Past, [Next]_vars
  PROVE  Past'
<1>1. CASE Tick \/ Zendesk
  BY <1>1, ZendeskKeepsPast
<1>2. CASE Poll \/ CycleFails \/ Workers
  <2>1. UNCHANGED <<clock, status, updated, posted, hidden>>
    BY <1>2, ListSteps
  <2>2. ZendeskPast'
    BY <2>1 DEF Past, ZendeskPast
  <2> QED
    BY <1>2, <2>2, StepsKeepLists, StepsKeepHorizon DEF Past
<1>3. CASE UNCHANGED vars
  BY <1>3 DEF vars, Past, ZendeskPast, ListsPast, OfItsTicket, Horizon
<1> QED
  BY <1>1, <1>2, <1>3 DEF Next

\* Nothing that the poller holds is later than the clock, and what it has listed
\* is what Zendesk had.
THEOREM ListsAreOfThePast == Spec => []Past
<1>1. Init => Past
  BY InitPast
<1>2. Inv /\ TypeOK /\ Past /\ [Next]_vars => Past'
  BY NextPast
<1> QED
  BY <1>1, <1>2, PollerInvariant, PollerTypes, PTL DEF Spec

----------------------------------------------------------------------------
\* What is stored was handled.  An event that the transaction has written counts
\* from then on, unless its job is the one about to be published.

Recorded == events \cup tx.events
InHand(k) == pc = "publish" /\ key = k /\ k \notin events

\* The four ways of RecordedCommentsAreWorkedOn.
Handled(c) ==
    \/ jobs[CommentJob(c)] > 0
    \/ c \in read \cup filed
    \/ CommentJob(c) \in refused
    \/ c \in skipped /\ Asked(InitialReply(TicketOf[c]))

\* The tickets that this cycle has found have been asked a reply for.
RepliesWereAsked ==
    \A t \in initialIds : Asked(InitialReply(t)) \/ (pc = "initial" /\ cur.id = t)

CommentsHandled ==
    \A c \in Comments :
        KindOf[c] = "user" /\ CommentKey(c) \in Recorded => Handled(c) \/ InHand(CommentKey(c))

\* The solved ticket that is worked on has been reported, or is about to be.
Working == {"publish", "update", "fetch", "comments"}
SolvedWorkReported ==
    pc \in Working /\ cur.status = "solved" /\ observing[cur.id] =>
        Asked(TicketClosed(cur.id)) \/ InHand(StatusKey(cur))

\* No listing can show the ticket solved at that second any more.
NeverSolvedAt(t, u) ==
    /\ u < updated[t] \/ (u = updated[t] /\ status[t] # "solved")
    /\ \A e \in todo : e.id = t /\ e.updated = u => e.status # "solved"

\* A status event whose key is taken cannot be in the way of TICKET_CLOSED.
StatusesHandled ==
    \A t \in Tickets, u \in Times : <<t, "status", u>> \in Recorded =>
        \/ Asked(TicketClosed(t))
        \/ InHand(<<t, "status", u>>)
        \/ NeverSolvedAt(t, u)

Work == /\ RepliesWereAsked /\ CommentsHandled
        /\ SolvedRowsWereReported /\ SolvedWorkReported /\ StatusesHandled

\* What is handled stays handled.
LEMMA HistoryGrows ==
  ASSUME Inv, TypeOK, [Next]_vars
  PROVE  /\ \A j \in Jobs : jobs[j] > 0 => jobs'[j] > 0
         /\ refused \subseteq refused' /\ read \subseteq read' /\ filed \subseteq filed'
         /\ skipped \subseteq skipped'
<1>1. ASSUME NEW j \in Jobs, PublishJob(j)
      PROVE  (\A k \in Jobs : jobs[k] > 0 => jobs'[k] > 0) /\ refused \subseteq refused'
  <2>1. jobs \in [Jobs -> Nat]
    BY DEF TypeOK
  <2>2. refused \subseteq refused'
    BY <1>1 DEF PublishJob
  <2>3. PICK lost \in 0..MaxPublishAttempts :
           jobs' = [jobs EXCEPT ![j] = @ + lost + 1] \/ jobs' = [jobs EXCEPT ![j] = @ + lost]
    BY <1>1 DEF PublishJob
  <2>4. lost \in Nat /\ \A k \in Jobs : jobs[k] \in Nat
    BY <2>1, PollerAssumption
  <2> QED
    BY <2>1, <2>2, <2>3, <2>4
<1>2. CASE PublishInitial
  <2>1. InitialReply(cur.id) \in Jobs
    BY <1>2 DEF PublishInitial, Inv, CurHasRow, Busy, Listed, Jobs
  <2> QED
    BY <1>1, <1>2, <2>1 DEF PublishInitial, history
<1>3. CASE PublishEvent
  <2>1. cur \in Listed /\ cur.id \in Tickets /\ key \in KeysOf(cur)
    BY <1>3 DEF PublishEvent, Inv, CurHasRow, Busy, Listed, OwnKey
  <2>2. JobOf(key) \in Jobs
    BY <2>1, JobOfOwnKey, JobsAreOwned
  <2> QED
    BY <1>1, <1>3, <2>2 DEF PublishEvent, history
<1>4. CASE \/ BeginCycle \/ BeginEvents \/ Commit \/ CycleFails \/ FetchComments \/ EndComments \/ UpdateRow
           \/ \E e \in todo : \/ OpenTicket(e) \/ SkipUnknown(e) \/ SkipUnobserved(e)
                              \/ StatusEvent(e) \/ NoStatusChange(e)
           \/ \E c \in Comments : NextComment(c)
  BY <1>4 DEF BeginCycle, BeginEvents, Commit, CycleFails, FetchComments, EndComments, UpdateRow,
     OpenTicket, SkipUnknown, SkipUnobserved, StatusEvent, NoStatusChange, NextComment, history
<1>5. CASE Tick \/ Zendesk
  BY <1>5 DEF Tick, Zendesk, CreateTicket, PostComment, SetStatus, Appears, history
<1>6. CASE Workers
  BY <1>6 DEF Workers, CloseTicket, FilterTicket, StoreConversation, RefreshComments, history
<1>7. CASE UNCHANGED vars
  BY <1>7 DEF vars
<1> QED
  BY <1>2, <1>3, <1>4, <1>5, <1>6, <1>7 DEF Next, Poll, OpenPhase, EventPhase

LEMMA AskedStays ==
  ASSUME Inv, TypeOK, [Next]_vars
  PROVE  /\ \A t \in Tickets : Asked(InitialReply(t)) => Asked(InitialReply(t))'
         /\ \A t \in Tickets : Asked(TicketClosed(t)) => Asked(TicketClosed(t))'
         /\ \A c \in Comments : Handled(c) => Handled(c)'
<1>1. \A t \in Tickets : InitialReply(t) \in Jobs /\ TicketClosed(t) \in Jobs
  BY DEF Jobs
<1>2. \A c \in Comments : CommentJob(c) \in Jobs /\ TicketOf[c] \in Tickets
  BY PollerAssumption DEF Jobs
<1>3. \A t \in Tickets : Asked(InitialReply(t)) => Asked(InitialReply(t))'
  BY <1>1, HistoryGrows DEF Asked, InitialReply
<1>4. \A t \in Tickets : Asked(TicketClosed(t)) => Asked(TicketClosed(t))'
  BY <1>1, HistoryGrows DEF Asked, TicketClosed
<1>5. \A c \in Comments : Handled(c) => Handled(c)'
  <2> SUFFICES ASSUME NEW c \in Comments, Handled(c) PROVE Handled(c)'
    OBVIOUS
  <2> QED
    BY <1>2, <1>3, HistoryGrows DEF Handled, CommentJob
<1> QED
  BY <1>3, <1>4, <1>5

\* publish() has asked for the job, whatever it answered.
LEMMA PublishAsks ==
  ASSUME TypeOK, NEW j \in Jobs, PublishJob(j)
  PROVE  jobs'[j] > 0 \/ j \in refused'
<1>1. jobs \in [Jobs -> Nat]
  BY DEF TypeOK
<1>2. CASE j \notin refused'
  <2>1. PICK lost \in 0..MaxPublishAttempts : jobs' = [jobs EXCEPT ![j] = @ + lost + 1]
    BY <1>2 DEF PublishJob
  <2>2. lost \in Nat /\ jobs[j] \in Nat
    BY <1>1, PollerAssumption
  <2> QED
    BY <1>1, <2>1, <2>2
<1> QED
  BY <1>2

\* The events of a comment and of a status change, and their jobs, are told apart.
LEMMA KeysApart ==
  /\ \A c, d \in Comments : CommentKey(c) = CommentKey(d) => c = d
  /\ \A t, u : \A c \in Comments : CommentKey(c) # <<t, "status", u>>
  /\ \A c \in Comments : JobOf(CommentKey(c)) = CommentJob(c)
  /\ \A t, u : JobOf(<<t, "status", u>>) = TicketClosed(t)
  BY DEF CommentKey, JobOf, IsStatus

LEMMA InitWork == Init => Work
<1> SUFFICES ASSUME Init PROVE Work
  OBVIOUS
<1> QED
  BY DEF Init, Work, RepliesWereAsked, CommentsHandled, SolvedRowsWereReported, SolvedWorkReported,
     StatusesHandled, Recorded, EmptyTx, Working

\* The replies of the tickets that the cycle has found.
LEMMA RepliesStep ==
  ASSUME Inv, TypeOK, RepliesWereAsked, [Next]_vars
  PROVE  RepliesWereAsked'
<1> SUFFICES ASSUME NEW t \in initialIds'
             PROVE  Asked(InitialReply(t))' \/ (pc' = "initial" /\ cur'.id = t)
  BY DEF RepliesWereAsked, Asked, InitialReply
<1>1. ASSUME t \in initialIds, pc = "initial" => UNCHANGED <<pc, cur>>
      PROVE  Asked(InitialReply(t))' \/ (pc' = "initial" /\ cur'.id = t)
  BY <1>1, AskedStays DEF RepliesWereAsked, TypeOK
<1>2. CASE PublishInitial
  <2>1. t \in initialIds /\ t \in Tickets
    BY <1>2 DEF PublishInitial, TypeOK
  <2>2. CASE cur.id = t
    <3>1. InitialReply(t) \in Jobs /\ PublishJob(InitialReply(t))
      BY <1>2, <2>1, <2>2 DEF PublishInitial, Jobs
    <3>2. jobs'[InitialReply(t)] > 0 \/ InitialReply(t) \in refused'
      BY <3>1, PublishAsks
    <3> QED
      BY <3>2 DEF Asked, InitialReply
  <2>3. CASE cur.id # t
    BY <2>1, <2>3, AskedStays DEF RepliesWereAsked
  <2> QED
    BY <2>2, <2>3
<1>3. ASSUME NEW e \in todo, OpenTicket(e)
      PROVE  Asked(InitialReply(t))' \/ (pc' = "initial" /\ cur'.id = t)
  BY <1>1, <1>3 DEF OpenTicket
<1>4. CASE BeginCycle \/ Commit \/ CycleFails
  BY <1>4 DEF BeginCycle, Commit, CycleFails, Sleep
<1>5. CASE \/ BeginEvents \/ FetchComments \/ EndComments \/ UpdateRow \/ PublishEvent
           \/ \E e \in todo : SkipUnknown(e) \/ SkipUnobserved(e) \/ StatusEvent(e) \/ NoStatusChange(e)
           \/ \E c \in Comments : NextComment(c)
  BY <1>1, <1>5 DEF BeginEvents, FetchComments, EndComments, UpdateRow, PublishEvent,
     SkipUnknown, SkipUnobserved, StatusEvent, NoStatusChange, NextComment
<1>6. CASE Tick \/ Zendesk \/ Workers \/ UNCHANGED vars
  BY <1>1, <1>6 DEF Tick, Zendesk, CreateTicket, PostComment, SetStatus, Appears, Workers,
     CloseTicket, FilterTicket, StoreConversation, RefreshComments, vars, cycle
<1> QED
  BY <1>2, <1>3, <1>4, <1>5, <1>6 DEF Next, Poll, OpenPhase, EventPhase

\* How the events that count change.
LEMMA RecordSteps ==
  ASSUME Inv, TypeOK, [Next]_vars
  PROVE  \/ UNCHANGED <<events, tx, pc, key>>
         \/ pc # "publish" /\ Recorded' \subseteq Recorded
         \/ pc = "publish" /\ Recorded' = events
         \/ PublishEvent
         \/ \E e \in todo : StatusEvent(e)
         \/ \E c \in Comments : NextComment(c)
         \/ \E c \in Comments : StoreConversation(c)
         \/ \E t \in Tickets, time \in 1..clock : RefreshComments(t, time)
<1>1. CASE BeginCycle \/ Commit \/ CycleFails
  <2>1. tx'.events = {}
    BY <1>1 DEF BeginCycle, Commit, CycleFails, Sleep, EmptyTx
  <2>2. CASE CycleFails
    BY <2>1, <2>2 DEF CycleFails, Rollback, Recorded
  <2>3. CASE BeginCycle \/ Commit
    BY <2>1, <2>3 DEF BeginCycle, Commit, Recorded, tables
  <2> QED
    BY <1>1, <2>2, <2>3
<1>2. CASE BeginEvents
  <2>1. tx'.events = tx.events
    BY <1>2, TxTypes DEF BeginEvents, TypeOK
  <2> QED
    BY <1>2, <2>1 DEF BeginEvents, Recorded, tables
<1>3. CASE \/ FetchComments \/ EndComments \/ UpdateRow \/ PublishInitial
           \/ \E e \in todo : OpenTicket(e) \/ SkipUnknown(e) \/ SkipUnobserved(e) \/ NoStatusChange(e)
  BY <1>3 DEF FetchComments, EndComments, UpdateRow, PublishInitial, OpenTicket, SkipUnknown,
     SkipUnobserved, NoStatusChange, tables, Recorded
<1>4. CASE Tick \/ Zendesk \/ UNCHANGED vars \/ \E t \in Tickets : CloseTicket(t) \/ FilterTicket(t)
  BY <1>4 DEF Tick, Zendesk, CreateTicket, PostComment, SetStatus, Appears, CloseTicket,
     FilterTicket, vars, tables, cycle
<1> QED
  BY <1>1, <1>2, <1>3, <1>4 DEF Next, Poll, OpenPhase, EventPhase, Workers

\* insert_event: one key more, with its job at hand if it has one, or none.
LEMMA InsertEffect ==
  ASSUME TypeOK, NEW k \in EventKeys, NEW wantsJob \in BOOLEAN, InsertEvent(k, wantsJob),
         UNCHANGED events
  PROVE  \/ /\ k \notin Recorded /\ Recorded' = Recorded \cup {k} /\ k \in tx'.events \ tx.events
            /\ key' = k /\ pc' = IF wantsJob THEN "publish" ELSE "update"
            /\ k \notin events'
         \/ k \in Recorded /\ UNCHANGED tx /\ Recorded' = Recorded /\ key' = k /\ pc' = "update"
<1>1. CASE k \in Recorded
  BY <1>1 DEF InsertEvent, Recorded
<1>2. CASE k \notin Recorded
  <2>1. tx' = [tx EXCEPT !.events = @ \cup {k}]
    BY <1>2 DEF InsertEvent, Recorded
  <2>2. tx'.events = tx.events \cup {k}
    <3>1. 0 \in Times
      BY PollerAssumption DEF Times
    <3> QED
      BY <2>1, <3>1, TxTypes
  <2> QED
    BY <1>2, <2>2 DEF InsertEvent, Recorded
<1> QED
  BY <1>1, <1>2

LEMMA CommentsStep ==
  ASSUME Inv, TypeOK, RepliesWereAsked, CommentsHandled, [Next]_vars
  PROVE  CommentsHandled'
<1> SUFFICES ASSUME NEW c \in Comments, KindOf[c] = "user", CommentKey(c) \in Recorded'
             PROVE  Handled(c)' \/ (pc' = "publish" /\ key' = CommentKey(c) /\ CommentKey(c) \notin events')
  BY DEF CommentsHandled, Handled, InHand, CommentKey
<1> DEFINE k == CommentKey(c)
<1> DEFINE Goal == Handled(c)' \/ (pc' = "publish" /\ key' = k /\ k \notin events')
<1>1. k \in EventKeys /\ JobOf(k) = CommentJob(c) /\ CommentJob(c) \in Jobs /\ TicketOf[c] \in Tickets
  BY EventKeyTypes, KeysApart, PollerAssumption DEF Jobs
<1>2. Handled(c) => Handled(c)'
  BY AskedStays
<1>3. k \in Recorded => Handled(c) \/ InHand(k)
  BY DEF CommentsHandled
<1> HIDE DEF k
<1>4. ASSUME UNCHANGED <<events, tx, pc, key>>
      PROVE  Goal
  BY <1>2, <1>3, <1>4 DEF Recorded, InHand, k
<1>5. ASSUME pc # "publish" /\ Recorded' \subseteq Recorded
      PROVE  Goal
  BY <1>2, <1>3, <1>5 DEF InHand, k
<1>6. ASSUME pc = "publish" /\ Recorded' = events
      PROVE  Goal
  BY <1>2, <1>3, <1>6 DEF Recorded, InHand, k
<1>7. ASSUME PublishEvent
      PROVE  Goal
  <2>1. k \in Recorded
    BY <1>7 DEF PublishEvent, tables, Recorded, k
  <2>2. CASE InHand(k)
    <3>1. PublishJob(CommentJob(c))
      BY <1>1, <1>7, <2>2 DEF PublishEvent, InHand
    <3>2. jobs'[CommentJob(c)] > 0 \/ CommentJob(c) \in refused'
      BY <1>1, <3>1, PublishAsks
    <3> QED
      BY <3>2 DEF Handled, CommentJob
  <2> QED
    BY <1>2, <1>3, <2>1, <2>2
<1>8. ASSUME NEW e \in todo, StatusEvent(e)
      PROVE  Goal
  <2>1. StatusKey(e) \in EventKeys /\ (e.status = "solved") \in BOOLEAN /\ StatusKey(e) # k
    BY EventKeyTypes, KeysApart DEF TypeOK, StatusKey, k
  <2>2. pc = "events" /\ InsertEvent(StatusKey(e), e.status = "solved") /\ UNCHANGED events
    BY <1>8 DEF StatusEvent, tables
  <2>3. Recorded' \subseteq Recorded \cup {StatusKey(e)}
    BY <2>1, <2>2, InsertEffect
  <2> QED
    BY <1>2, <1>3, <2>1, <2>2, <2>3 DEF InHand, k
<1>9. ASSUME NEW d \in Comments, NextComment(d)
      PROVE  Goal
  <2>1. CommentKey(d) \in EventKeys /\ WantsJob(d) \in BOOLEAN
    BY EventKeyTypes DEF WantsJob, SkipsFollowUp
  <2>2. pc = "comments" /\ InsertEvent(CommentKey(d), WantsJob(d)) /\ UNCHANGED <<events, initialIds>>
    BY <1>9 DEF NextComment, tables
  <2>3. CASE k \in Recorded
    BY <1>2, <1>3, <2>2, <2>3 DEF InHand
  <2>4. CASE k \notin Recorded
    <3>1. Recorded' \subseteq Recorded \cup {CommentKey(d)}
      BY <2>1, <2>2, InsertEffect
    <3>2. d = c
      BY <2>4, <3>1, KeysApart DEF k
    <3>3. /\ k \in tx'.events \ tx.events /\ key' = k
          /\ pc' = (IF WantsJob(c) THEN "publish" ELSE "update") /\ k \notin events'
      BY <2>1, <2>2, <2>4, <3>2, InsertEffect DEF k
    <3>4. CASE WantsJob(c)
      BY <3>3, <3>4
    <3>5. CASE ~WantsJob(c)
      <4>1. SkipsFollowUp(c)
        BY <3>5 DEF WantsJob
      <4>2. c \in skipped'
        BY <1>9, <3>2, <3>3, <4>1 DEF NextComment, k
      <4>3. Asked(InitialReply(TicketOf[c]))
        BY <2>2, <4>1 DEF SkipsFollowUp, RepliesWereAsked
      <4>4. Asked(InitialReply(TicketOf[c]))'
        BY <1>1, <4>3, AskedStays
      <4> QED
        BY <4>2, <4>4 DEF Handled, Asked
    <3> QED
      BY <3>4, <3>5
  <2> QED
    BY <2>3, <2>4
<1>10. ASSUME NEW d \in Comments, StoreConversation(d)
       PROVE  Goal
  <2> DEFINE conversation == {x \in Comments : TicketOf[x] = TicketOf[d] /\ posted[x] > 0}
  <2> DEFINE keys == {CommentKey(x) : x \in conversation}
  <2>1. /\ keys \cap tx.events = {} /\ events' = events \cup keys /\ read' = read \cup conversation
        /\ UNCHANGED <<tx, pc, key>>
    BY <1>10 DEF StoreConversation, cycle
  <2>2. CASE k \in keys
    <3>1. c \in conversation
      BY <2>2, KeysApart DEF k
    <3> QED
      BY <2>1, <3>1 DEF Handled
  <2>3. CASE k \notin keys
    <3>1. k \in Recorded /\ (k \notin events => k \notin events')
      BY <2>1, <2>3 DEF Recorded, k
    <3> QED
      BY <1>2, <1>3, <2>1, <3>1 DEF InHand
  <2> QED
    BY <2>2, <2>3
<1>11. ASSUME NEW t \in Tickets, NEW time \in 1..clock, RefreshComments(t, time)
       PROVE  Goal
  <2> DEFINE conversation == {x \in Comments : TicketOf[x] = t /\ posted[x] \in 1..time}
  <2> DEFINE keys == {CommentKey(x) : x \in conversation}
  <2>1. /\ keys \cap tx.events = {} /\ events' = events \cup keys
        /\ filed' = filed \cup {x \in conversation : CommentKey(x) \notin events}
        /\ UNCHANGED <<tx, pc, key>>
    BY <1>11 DEF RefreshComments, cycle
  <2>2. CASE k \in keys /\ k \notin events
    <3>1. c \in conversation
      BY <2>2, KeysApart DEF k
    <3>2. c \in filed'
      BY <2>1, <2>2, <3>1 DEF k
    <3> QED
      BY <3>2 DEF Handled
  <2>3. CASE k \notin keys \/ k \in events
    <3>1. k \in Recorded /\ (k \notin events => k \notin events')
      BY <2>1, <2>3 DEF Recorded, k
    <3> QED
      BY <1>2, <1>3, <2>1, <3>1 DEF InHand
  <2> QED
    BY <2>2, <2>3
<1>12. Goal
  BY <1>4, <1>5, <1>6, <1>7, <1>8, <1>9, <1>10, <1>11, RecordSteps
<1> QED
  BY <1>12 DEF k

\* A status event whose key is there, after a step that adds none and lists nothing.
LEMMA SettledStays ==
  ASSUME TypeOK, Past, NEW t \in Tickets, NEW u \in Times, NeverSolvedAt(t, u),
         todo' \subseteq todo, updated'[t] \in Times,
         \/ UNCHANGED <<status, updated>>
         \/ updated'[t] = updated[t] /\ status'[t] = status[t]
         \/ /\ updated'[t] = clock
            /\ status'[t] = "open" \/ status'[t] = status[t] \/ updated[t] < clock
  PROVE  NeverSolvedAt(t, u)'
<1>1. u \in Nat /\ updated[t] \in Nat /\ clock \in Nat /\ updated[t] <= clock
  BY PollerAssumption DEF TypeOK, Times, Past, ZendeskPast
<1> QED
  BY <1>1 DEF NeverSolvedAt

LEMMA ZendeskTouches ==
  ASSUME TypeOK, Tick \/ Zendesk, NEW t \in Tickets
  PROVE  \/ updated'[t] = updated[t] /\ status'[t] = status[t]
         \/ /\ updated'[t] = clock
            /\ status'[t] = "open" \/ status'[t] = status[t] \/ updated[t] < clock
<1> USE DEF TypeOK
<1>1. ASSUME NEW v \in Tickets, NEW s \in Statuses, Touch(v, s),
             s = "open" \/ s = status[v] \/ updated[v] < clock
      PROVE  \/ updated'[t] = updated[t] /\ status'[t] = status[t]
             \/ /\ updated'[t] = clock
                /\ status'[t] = "open" \/ status'[t] = status[t] \/ updated[t] < clock
  BY <1>1 DEF Touch
<1>2. ASSUME NEW c \in Comments, CreateTicket(c) \/ PostComment(c)
      PROVE  \E v \in Tickets, s \in Statuses : Touch(v, s) /\ (s = "open" \/ s = status[v])
  BY <1>2, PollerAssumption DEF CreateTicket, PostComment, Statuses
<1>3. CASE \E c \in Comments : CreateTicket(c) \/ PostComment(c)
  BY <1>1, <1>2, <1>3
<1>4. CASE \E v \in Tickets, s \in Statuses : SetStatus(v, s)
  BY <1>1, <1>4 DEF SetStatus
<1>5. CASE Tick \/ \E v \in Tickets : Appears(v)
  BY <1>5 DEF Tick, Appears
<1> QED
  BY <1>3, <1>4, <1>5 DEF Zendesk

LEMMA StatusesStep ==
  ASSUME Inv, TypeOK, Past, TypeOK', StatusesHandled, [Next]_vars
  PROVE  StatusesHandled'
<1> SUFFICES ASSUME NEW t \in Tickets, NEW u \in Times, <<t, "status", u>> \in Recorded'
             PROVE  \/ Asked(TicketClosed(t))'
                    \/ pc' = "publish" /\ key' = <<t, "status", u>> /\ <<t, "status", u>> \notin events'
                    \/ NeverSolvedAt(t, u)'
  BY DEF StatusesHandled, Asked, TicketClosed, InHand, NeverSolvedAt
<1> DEFINE k == <<t, "status", u>>
<1> DEFINE Goal == \/ Asked(TicketClosed(t))'
                   \/ pc' = "publish" /\ key' = k /\ k \notin events'
                   \/ NeverSolvedAt(t, u)'
<1>1. /\ JobOf(k) = TicketClosed(t) /\ TicketClosed(t) \in Jobs /\ k \in EventKeys
      /\ \A c \in Comments : CommentKey(c) # k
  BY KeysApart DEF Jobs, EventKeys
<1>2. Asked(TicketClosed(t)) => Goal
  BY AskedStays
<1>3. k \in Recorded => Asked(TicketClosed(t)) \/ InHand(k) \/ NeverSolvedAt(t, u)
  BY DEF StatusesHandled
<1>4. NeverSolvedAt(t, u) => NeverSolvedAt(t, u)'
  <2> SUFFICES ASSUME NeverSolvedAt(t, u) PROVE NeverSolvedAt(t, u)'
    OBVIOUS
  <2>1. updated'[t] \in Times
    BY DEF TypeOK
  <2>2. CASE Tick \/ Zendesk
    <3>1. todo' \subseteq todo
      BY <2>2 DEF Tick, Zendesk, CreateTicket, PostComment, SetStatus, Appears, cycle
    <3> QED
      BY <2>1, <2>2, <3>1, ZendeskTouches, SettledStays
  <2>3. CASE Poll \/ CycleFails \/ Workers
    <3>1. UNCHANGED <<status, updated>>
      BY <2>3, ListSteps
    <3>2. CASE todo' \subseteq todo
      BY <2>1, <3>1, <3>2, SettledStays
    <3>3. ASSUME NEW after, NEW statuses, Fetch(after, statuses)
          PROVE  NeverSolvedAt(t, u)'
      <4>1. \A e \in todo' : e.id \in Tickets /\ e.status = status[e.id] /\ e.updated = updated[e.id]
        BY <3>3, FetchLists
      <4>2. updated[t] \in Nat /\ u \in Nat
        BY PollerAssumption DEF TypeOK, Times
      <4> QED
        BY <3>1, <4>1, <4>2 DEF NeverSolvedAt
    <3> QED
      BY <2>3, <3>2, <3>3, ListSteps
  <2>4. CASE UNCHANGED vars
    BY <2>4 DEF vars, NeverSolvedAt
  <2> QED
    BY <2>2, <2>3, <2>4 DEF Next
<1> HIDE DEF k
<1>5. ASSUME UNCHANGED <<events, tx, pc, key>>
      PROVE  Goal
  BY <1>2, <1>3, <1>4, <1>5 DEF Recorded, InHand, k
<1>6. ASSUME pc # "publish" /\ Recorded' \subseteq Recorded
      PROVE  Goal
  BY <1>2, <1>3, <1>4, <1>6 DEF InHand, k
<1>7. ASSUME pc = "publish" /\ Recorded' = events
      PROVE  Goal
  BY <1>2, <1>3, <1>4, <1>7 DEF Recorded, InHand, k
<1>8. ASSUME PublishEvent
      PROVE  Goal
  <2>1. k \in Recorded
    BY <1>8 DEF PublishEvent, tables, Recorded, k
  <2>2. CASE InHand(k)
    <3>1. PublishJob(TicketClosed(t))
      BY <1>1, <1>8, <2>2 DEF PublishEvent, InHand
    <3>2. jobs'[TicketClosed(t)] > 0 \/ TicketClosed(t) \in refused'
      BY <1>1, <3>1, PublishAsks
    <3> QED
      BY <3>2 DEF Asked, TicketClosed
  <2> QED
    BY <1>2, <1>3, <1>4, <2>1, <2>2
<1>9. ASSUME NEW e \in todo, StatusEvent(e)
      PROVE  Goal
  <2>1. StatusKey(e) \in EventKeys /\ (e.status = "solved") \in BOOLEAN /\ e \in Listed
    BY EventKeyTypes DEF TypeOK
  <2>2. /\ pc = "events" /\ InsertEvent(StatusKey(e), e.status = "solved")
        /\ UNCHANGED <<events, status, updated>> /\ todo' = todo \ {e}
    BY <1>9 DEF StatusEvent, tables, zendesk
  <2>3. CASE k \in Recorded
    BY <1>2, <1>3, <1>4, <2>2, <2>3 DEF InHand
  <2>4. CASE k \notin Recorded
    <3>1. k = StatusKey(e)
      BY <2>1, <2>2, <2>4, InsertEffect DEF k
    <3>2. e.id = t /\ e.updated = u
      BY <3>1 DEF StatusKey, k
    <3>3. /\ key' = k /\ pc' = (IF e.status = "solved" THEN "publish" ELSE "update") /\ k \notin events'
      BY <2>1, <2>2, <2>4, <3>1, InsertEffect
    <3>4. CASE e.status = "solved"
      BY <3>3, <3>4
    <3>5. CASE e.status # "solved"
      <4>1. OfItsTicket(e) /\ \A f \in todo' : f.id # t
        BY <2>2, <3>2 DEF Past, ListsPast
      <4>2. u <= updated[t] /\ (u = updated[t] => status[t] # "solved")
        BY <3>2, <3>5, <4>1 DEF OfItsTicket
      <4>3. u \in Nat /\ updated[t] \in Nat
        BY PollerAssumption DEF TypeOK, Times
      <4> QED
        BY <2>2, <4>1, <4>2, <4>3 DEF NeverSolvedAt
    <3> QED
      BY <3>4, <3>5
  <2> QED
    BY <2>3, <2>4
<1>10. ASSUME NEW d \in Comments, NextComment(d)
       PROVE  Goal
  <2>1. CommentKey(d) \in EventKeys /\ WantsJob(d) \in BOOLEAN
    BY EventKeyTypes DEF WantsJob, SkipsFollowUp
  <2>2. pc = "comments" /\ InsertEvent(CommentKey(d), WantsJob(d)) /\ UNCHANGED events
    BY <1>10 DEF NextComment, tables
  <2>3. k \in Recorded
    BY <1>1, <2>1, <2>2, InsertEffect DEF k
  <2> QED
    BY <1>2, <1>3, <1>4, <2>2, <2>3 DEF InHand
<1>11. ASSUME NEW keys, \A x \in keys : \E c \in Comments : x = CommentKey(c),
              events' = events \cup keys, UNCHANGED <<tx, pc, key>>
       PROVE  Goal
  <2>1. k \notin keys
    BY <1>1, <1>11
  <2>2. k \in Recorded /\ (k \notin events => k \notin events')
    BY <1>11, <2>1 DEF Recorded, k
  <2> QED
    BY <1>2, <1>3, <1>4, <1>11, <2>2 DEF InHand
<1>12. ASSUME NEW d \in Comments, StoreConversation(d)
       PROVE  Goal
  <2> DEFINE keys == {CommentKey(x) : x \in {y \in Comments : TicketOf[y] = TicketOf[d] /\ posted[y] > 0}}
  <2>1. events' = events \cup keys /\ UNCHANGED <<tx, pc, key>>
    BY <1>12 DEF StoreConversation, cycle
  <2>2. \A x \in keys : \E c \in Comments : x = CommentKey(c)
    OBVIOUS
  <2> HIDE DEF keys
  <2> QED
    BY <1>11, <2>1, <2>2
<1>13. ASSUME NEW v \in Tickets, NEW time \in 1..clock, RefreshComments(v, time)
       PROVE  Goal
  <2> DEFINE keys == {CommentKey(x) : x \in {y \in Comments : TicketOf[y] = v /\ posted[y] \in 1..time}}
  <2>1. events' = events \cup keys /\ UNCHANGED <<tx, pc, key>>
    BY <1>13 DEF RefreshComments, cycle
  <2>2. \A x \in keys : \E c \in Comments : x = CommentKey(c)
    OBVIOUS
  <2> HIDE DEF keys
  <2> QED
    BY <1>11, <2>1, <2>2
<1>14. Goal
  BY <1>5, <1>6, <1>7, <1>8, <1>9, <1>10, <1>12, <1>13, RecordSteps
<1> QED
  BY <1>14 DEF k

\* A row that says "solved" of an observed ticket is written once that is reported.
LEMMA SolvedRowsStep ==
  ASSUME Inv, TypeOK, Past, SolvedRowsWereReported, SolvedWorkReported, [Next]_vars
  PROVE  SolvedRowsWereReported'
<1> SUFFICES ASSUME NEW t \in Tickets, row'[t] = "solved", observing'[t]
             PROVE  Asked(TicketClosed(t))'
  BY DEF SolvedRowsWereReported, Asked, TicketClosed
<1>1. observing[t] /\ (row[t] = "solved" => Asked(TicketClosed(t)))
  <2>1. ~observing[t] => ~observing'[t]
    <3>1. observing' = observing \/ \A u \in Tickets : ~observing[u] => ~observing'[u]
      BY NextKeepsUnobserved DEF vars
    <3> QED
      BY <3>1
  <2> QED
    BY <2>1 DEF SolvedRowsWereReported
<1>2. ASSUME row'[t] = row[t]
      PROVE  Asked(TicketClosed(t))'
  BY <1>1, <1>2, AskedStays
<1>3. ASSUME NEW v \in Tickets, NEW s, NEW observe, Upsert(v, s, observe), v = t => s # "solved"
      PROVE  Asked(TicketClosed(t))'
  <2>1. v # t
    BY <1>3 DEF Upsert, TypeOK
  <2> QED
    BY <1>2, <1>3, <2>1 DEF Upsert, TypeOK
<1>4. ASSUME NEW e \in todo, OpenTicket(e)
      PROVE  Asked(TicketClosed(t))'
  <2>1. e.id \in Tickets /\ e.status = "open" /\ Upsert(e.id, e.status, TRUE)
    BY <1>4 DEF OpenTicket, Past, ListsPast, TypeOK, Listed
  <2> QED
    BY <1>3, <2>1
<1>5. ASSUME NEW e \in todo, SkipUnobserved(e)
      PROVE  Asked(TicketClosed(t))'
  <2>1. e.id \in Tickets /\ ~observing[e.id] /\ Upsert(e.id, e.status, TRUE)
    BY <1>5 DEF SkipUnobserved, TypeOK, Listed
  <2> QED
    BY <1>1, <1>3, <2>1
<1>6. ASSUME NEW v \in Tickets, FilterTicket(v)
      PROVE  Asked(TicketClosed(t))'
  BY <1>3, <1>6 DEF FilterTicket
<1>7. CASE UpdateRow
  <2>1. pc = "update" /\ cur.id \in Tickets /\ Upsert(cur.id, cur.status, TRUE)
    BY <1>7 DEF UpdateRow, Inv, CurHasRow, Busy, Listed
  <2>2. cur.id = t /\ cur.status = "solved" => Asked(TicketClosed(t))
    BY <1>1, <2>1 DEF SolvedWorkReported, Working, InHand
  <2> QED
    BY <1>3, <2>1, <2>2, AskedStays
<1>8. CASE \/ BeginCycle \/ BeginEvents \/ Commit \/ CycleFails \/ FetchComments \/ EndComments
           \/ PublishInitial \/ PublishEvent
           \/ \E e \in todo : SkipUnknown(e) \/ StatusEvent(e) \/ NoStatusChange(e)
           \/ \E c \in Comments : NextComment(c)
  BY <1>2, <1>8 DEF BeginCycle, BeginEvents, Commit, CycleFails, FetchComments, EndComments,
     PublishInitial, PublishEvent, SkipUnknown, StatusEvent, NoStatusChange, NextComment, tables
<1>9. CASE \/ Tick \/ Zendesk \/ UNCHANGED vars
           \/ \E v \in Tickets : CloseTicket(v) \/ \E time \in 1..clock : RefreshComments(v, time)
           \/ \E c \in Comments : StoreConversation(c)
  BY <1>2, <1>9 DEF Tick, Zendesk, CreateTicket, PostComment, SetStatus, Appears, vars, CloseTicket,
     RefreshComments, StoreConversation, tables
<1> QED
  BY <1>4, <1>5, <1>6, <1>7, <1>8, <1>9 DEF Next, Poll, OpenPhase, EventPhase, Workers

\* The ticket in hand.
LEMMA SolvedWorkStep ==
  ASSUME Inv, TypeOK, Past, SolvedRowsWereReported, SolvedWorkReported, StatusesHandled, [Next]_vars
  PROVE  SolvedWorkReported'
<1> SUFFICES ASSUME NEW e, e = cur', pc' \in Working, e.status = "solved", observing'[e.id]
             PROVE  \/ Asked(TicketClosed(e.id))'
                    \/ pc' = "publish" /\ key' = StatusKey(e) /\ StatusKey(e) \notin events'
  BY DEF SolvedWorkReported, InHand, Asked, TicketClosed, StatusKey
<1> DEFINE Goal == \/ Asked(TicketClosed(e.id))'
                   \/ pc' = "publish" /\ key' = StatusKey(e) /\ StatusKey(e) \notin events'
<1>1. ASSUME cur' = cur, pc \in Working,
             InHand(StatusKey(e)) => UNCHANGED <<pc, key>> /\ StatusKey(e) \notin events'
      PROVE  Goal
  <2>1. e = cur /\ e.id \in Tickets
    BY <1>1 DEF Inv, CurHasRow, Busy, Working, Listed
  <2>2. observing[e.id]
    <3>1. observing' = observing \/ \A u \in Tickets : ~observing[u] => ~observing'[u]
      BY NextKeepsUnobserved DEF vars
    <3> QED
      BY <2>1, <3>1
  <2>3. Asked(TicketClosed(e.id)) \/ InHand(StatusKey(e))
    BY <1>1, <2>1, <2>2 DEF SolvedWorkReported
  <2>4. Asked(TicketClosed(e.id)) => Asked(TicketClosed(e.id))'
    BY <2>1, AskedStays
  <2>5. InHand(StatusKey(e)) => Goal
    BY <1>1 DEF InHand
  <2> QED
    BY <2>3, <2>4, <2>5
<1>2. ASSUME NEW f \in todo, StatusEvent(f)
      PROVE  Goal
  <2>1. e = f /\ f \in Listed /\ f.id \in Tickets /\ f.updated \in Times /\ StatusKey(f) \in EventKeys
    BY <1>2, EventKeyTypes DEF StatusEvent, TypeOK, Listed
  <2>2. pc = "events" /\ InsertEvent(StatusKey(f), TRUE) /\ UNCHANGED events /\ TRUE \in BOOLEAN
    <3>1. (f.status = "solved") = TRUE
      BY <2>1
    <3> QED
      BY <1>2, <3>1 DEF StatusEvent, tables
  <2>3. CASE StatusKey(f) \notin Recorded
    BY <2>1, <2>2, <2>3, InsertEffect
  <2>4. CASE StatusKey(f) \in Recorded
    <3>1. Asked(TicketClosed(f.id)) \/ InHand(StatusKey(f)) \/ NeverSolvedAt(f.id, f.updated)
      BY <2>1, <2>4 DEF StatusesHandled, StatusKey
    <3>2. Asked(TicketClosed(f.id))
      BY <2>1, <2>2, <3>1 DEF InHand, NeverSolvedAt
    <3> QED
      BY <2>1, <3>2, AskedStays
  <2> QED
    BY <2>3, <2>4
<1>3. ASSUME NEW f \in todo, NoStatusChange(f)
      PROVE  Goal
  <2>1. e = f /\ f.id \in Tickets /\ row[f.id] = "solved" /\ observing[f.id]
    BY <1>3 DEF NoStatusChange, TypeOK, Listed
  <2>2. Asked(TicketClosed(f.id))
    BY <2>1 DEF SolvedRowsWereReported
  <2> QED
    BY <2>1, <2>2, AskedStays
<1>4. CASE PublishEvent
  <2>1. cur' = cur /\ pc = "publish" /\ cur.id \in Tickets /\ PublishJob(JobOf(key)) /\ cur \in Listed
        /\ UNCHANGED events
    BY <1>4 DEF PublishEvent, Inv, CurHasRow, Busy, Listed, tables
  <2>2. CASE InHand(StatusKey(e))
    <3>1. PublishJob(TicketClosed(cur.id)) /\ TicketClosed(cur.id) \in Jobs
      BY <2>1, <2>2, KeysApart DEF InHand, StatusKey, Jobs
    <3>2. jobs'[TicketClosed(cur.id)] > 0 \/ TicketClosed(cur.id) \in refused'
      BY <3>1, PublishAsks
    <3> QED
      BY <2>1, <3>2 DEF Asked, TicketClosed
  <2>3. CASE ~InHand(StatusKey(e))
    BY <1>1, <2>1, <2>3 DEF Working
  <2> QED
    BY <2>2, <2>3
<1>5. CASE FetchComments \/ UpdateRow \/ \E c \in Comments : NextComment(c)
  <2>1. cur' = cur /\ pc \in Working /\ pc # "publish"
    BY <1>5 DEF FetchComments, UpdateRow, NextComment, Working
  <2> QED
    BY <1>1, <2>1 DEF InHand
<1>6. ASSUME UNCHANGED <<pc, cur, key>>, StatusKey(e) \notin events => StatusKey(e) \notin events'
      PROVE  Goal
  BY <1>1, <1>6 DEF InHand
<1>7. CASE Tick \/ Zendesk \/ UNCHANGED vars \/ \E t \in Tickets : CloseTicket(t) \/ FilterTicket(t)
  BY <1>6, <1>7 DEF Tick, Zendesk, CreateTicket, PostComment, SetStatus, Appears, vars, CloseTicket,
     FilterTicket, tables, cycle
<1>8. ASSUME NEW d \in Comments, StoreConversation(d)
      PROVE  Goal
  <2>1. StatusKey(e) \notin events => StatusKey(e) \notin events'
    BY <1>8, KeysApart DEF StoreConversation, StatusKey
  <2> QED
    BY <1>6, <1>8, <2>1 DEF StoreConversation, cycle
<1>9. ASSUME NEW t \in Tickets, NEW time \in 1..clock, RefreshComments(t, time)
      PROVE  Goal
  <2>1. StatusKey(e) \notin events => StatusKey(e) \notin events'
    BY <1>9, KeysApart DEF RefreshComments, StatusKey
  <2> QED
    BY <1>6, <1>9, <2>1 DEF RefreshComments, cycle
<1>10. pc' \in Working /\ (\E f \in todo : OpenTicket(f)) => FALSE
  BY DEF OpenTicket, Working
<1>11. CASE \/ BeginCycle \/ BeginEvents \/ Commit \/ CycleFails \/ EndComments \/ PublishInitial
            \/ \E f \in todo : SkipUnknown(f) \/ SkipUnobserved(f)
  BY <1>11 DEF BeginCycle, BeginEvents, Commit, CycleFails, Sleep, EndComments, PublishInitial,
     SkipUnknown, SkipUnobserved, Working
<1> QED
  BY <1>2, <1>3, <1>4, <1>5, <1>7, <1>8, <1>9, <1>10, <1>11
     DEF Next, Poll, OpenPhase, EventPhase, Workers

\* Every step keeps what is stored handled.
LEMMA NextWork ==
  ASSUME Inv, TypeOK, Past, TypeOK', Work, [Next]_vars
  PROVE  Work'
  BY RepliesStep, CommentsStep, SolvedRowsStep, SolvedWorkStep, StatusesStep DEF Work

\* The inductive invariant of what the cycles store.
THEOREM WorkInvariant == Spec => []Work
<1>1. Init => Work
  BY InitWork
<1>2. Inv /\ TypeOK /\ Past /\ TypeOK' /\ Work /\ [Next]_vars => Work'
  BY NextWork
<1> QED
  BY <1>1, <1>2, PollerInvariant, PollerTypes, ListsAreOfThePast, PTL DEF Spec

\* poller.py: whatever the events table and the rows say was seen has its job, or
\* was refused one, or was worked on otherwise, however cycles fail and interleave
\* with the workers.
THEOREM NothingStoredUnhandled == Spec => []StoredMeansHandled
<1>1. Work => StoredMeansHandled
  <2> SUFFICES ASSUME Work PROVE StoredMeansHandled
    OBVIOUS
  <2>1. \A c \in Comments : KindOf[c] = "user" /\ CommentKey(c) \in events => Handled(c)
    BY DEF Work, CommentsHandled, Recorded, InHand
  <2>2. RecordedCommentsAreWorkedOn
    BY <2>1 DEF RecordedCommentsAreWorkedOn, Handled
  <2> QED
    BY <2>2 DEF Work, StoredMeansHandled
<1> QED
  BY <1>1, WorkInvariant, PTL

----------------------------------------------------------------------------
\* Every ticket without its initial reply has a fault of its own, but for the one
\* whose job the cycle is about to publish.

Missing == {t \in Tickets : row[t] # "none" /\ jobs[InitialReply(t)] = 0}
Unexplained == Missing \ (IF pc = "initial" THEN {cur.id} ELSE {})

MissingBounded ==
    /\ IsFiniteSet(Missing)
    /\ Cardinality(Unexplained) <= faults

\* A finite set that gains one element at most, which must have an explanation.
LEMMA OneMore ==
  ASSUME NEW S, NEW T, NEW x, IsFiniteSet(S), T \subseteq S \cup {x}
  PROVE  IsFiniteSet(T) /\ Cardinality(T) <= Cardinality(S) + 1
<1>1. IsFiniteSet(S \cup {x}) /\ Cardinality(S \cup {x}) <= Cardinality(S) + 1
  <2>1. /\ IsFiniteSet(S \cup {x})
        /\ Cardinality(S \cup {x}) = IF x \in S THEN Cardinality(S) ELSE Cardinality(S) + 1
    BY FS_AddElement
  <2>2. Cardinality(S) \in Nat
    BY FS_CardinalityType
  <2> QED
    BY <2>1, <2>2
<1>2. IsFiniteSet(T) /\ Cardinality(T) <= Cardinality(S \cup {x})
  BY <1>1, FS_Subset
<1>3. Cardinality(T) \in Nat /\ Cardinality(S) \in Nat /\ Cardinality(S \cup {x}) \in Nat
  BY <1>1, <1>2, FS_CardinalityType
<1> QED
  BY <1>1, <1>2, <1>3

LEMMA InitMissing == Init => MissingBounded
<1> SUFFICES ASSUME Init PROVE MissingBounded
  OBVIOUS
<1>1. Missing = {} /\ Unexplained = {} /\ faults = 0
  BY DEF Init, Missing, Unexplained
<1>2. IsFiniteSet({}) /\ Cardinality({}) = 0
  BY FS_EmptySet
<1> HIDE DEF Missing, Unexplained
<1> QED
  BY <1>1, <1>2 DEF MissingBounded

\* The faults are counted.
LEMMA FaultsGrow ==
  ASSUME Inv, TypeOK, [Next]_vars
  PROVE  faults \in Nat /\ faults' \in Nat /\ faults <= faults'
<1>1. faults \in Nat
  BY PollerAssumption DEF TypeOK
<1>2. CASE BeginCycle \/ BeginEvents
  <2>1. faults' = faults \/ faults' = faults + 1
    BY <1>2 DEF BeginCycle, BeginEvents, Fetch
  <2> QED
    BY <1>1, <2>1
<1>3. CASE PublishInitial \/ PublishEvent
  <2>1. jobs \in [Jobs -> Nat]
    BY DEF TypeOK
  <2>2. CASE PublishInitial
    <3>1. InitialReply(cur.id) \in Jobs /\ PublishJob(InitialReply(cur.id))
      BY <2>2 DEF PublishInitial, Inv, CurHasRow, Busy, Listed, Jobs
    <3> QED
      BY <1>1, <2>1, <3>1, PublishFaults
  <2>3. CASE PublishEvent
    <3>1. cur \in Listed /\ cur.id \in Tickets /\ key \in KeysOf(cur)
      BY <2>3 DEF PublishEvent, Inv, CurHasRow, Busy, Listed, OwnKey
    <3>2. JobOf(key) \in Jobs /\ PublishJob(JobOf(key))
      BY <2>3, <3>1, JobOfOwnKey, JobsAreOwned DEF PublishEvent
    <3> QED
      BY <1>1, <2>1, <3>2, PublishFaults
  <2> QED
    BY <1>3, <2>2, <2>3
<1>4. CASE \/ Commit \/ CycleFails \/ FetchComments \/ EndComments \/ UpdateRow
           \/ \E e \in todo : \/ OpenTicket(e) \/ SkipUnknown(e) \/ SkipUnobserved(e)
                              \/ StatusEvent(e) \/ NoStatusChange(e)
           \/ \E c \in Comments : NextComment(c)
  <2>1. faults' = faults \/ faults' = faults + 1
    BY <1>4 DEF Commit, CycleFails, FetchComments, EndComments, UpdateRow, OpenTicket, SkipUnknown,
       SkipUnobserved, StatusEvent, NoStatusChange, NextComment
  <2> QED
    BY <1>1, <2>1
<1>5. CASE Tick \/ Zendesk \/ Workers \/ UNCHANGED vars
  <2>1. faults' = faults
    BY <1>5 DEF Tick, Zendesk, CreateTicket, PostComment, SetStatus, Appears, Workers, CloseTicket,
       FilterTicket, StoreConversation, RefreshComments, vars
  <2> QED
    BY <1>1, <2>1
<1> QED
  BY <1>1, <1>2, <1>3, <1>4, <1>5 DEF Next, Poll, OpenPhase, EventPhase

\* Only _process_open_tickets makes a ticket known.
LEMMA RowsAppear ==
  ASSUME Inv, TypeOK, [Next]_vars
  PROVE  \/ \A t \in Tickets : row'[t] # "none" => row[t] # "none"
         \/ \E e \in todo : OpenTicket(e)
<1>1. ASSUME NEW t \in Tickets, NEW s, NEW observe, Upsert(t, s, observe), row[t] # "none"
      PROVE  \A u \in Tickets : row'[u] # "none" => row[u] # "none"
  BY <1>1 DEF Upsert, TypeOK
<1>2. CASE \E e \in todo : SkipUnobserved(e)
  BY <1>1, <1>2 DEF SkipUnobserved, TypeOK, Listed
<1>3. CASE UpdateRow
  BY <1>1, <1>3 DEF UpdateRow, Inv, CurHasRow, Busy, Listed
<1>4. ASSUME NEW t \in Tickets, FilterTicket(t)
      PROVE  \A u \in Tickets : row'[u] # "none" => row[u] # "none"
  <2>1. InitialReply(t) \in JobsOf(t) /\ InitialReply(t) \in Jobs
    BY DEF JobsOf, Jobs
  <2>2. row[t] # "none"
    BY <1>4, <2>1 DEF FilterTicket, Inv, JobsFollowRows
  <2> QED
    BY <1>1, <1>4, <2>2 DEF FilterTicket
<1>5. CASE UNCHANGED row
  BY <1>5
<1>6. CASE \/ BeginCycle \/ BeginEvents \/ Commit \/ CycleFails \/ FetchComments \/ EndComments
           \/ PublishInitial \/ PublishEvent
           \/ \E e \in todo : SkipUnknown(e) \/ StatusEvent(e) \/ NoStatusChange(e)
           \/ \E c \in Comments : NextComment(c)
  BY <1>5, <1>6 DEF BeginCycle, BeginEvents, Commit, CycleFails, FetchComments, EndComments,
     PublishInitial, PublishEvent, SkipUnknown, StatusEvent, NoStatusChange, NextComment, tables
<1>7. CASE \/ Tick \/ Zendesk \/ UNCHANGED vars
           \/ \E v \in Tickets : CloseTicket(v) \/ \E time \in 1..clock : RefreshComments(v, time)
           \/ \E c \in Comments : StoreConversation(c)
  BY <1>5, <1>7 DEF Tick, Zendesk, CreateTicket, PostComment, SetStatus, Appears, vars, CloseTicket,
     RefreshComments, StoreConversation, tables
<1> QED
  BY <1>2, <1>3, <1>4, <1>6, <1>7 DEF Next, Poll, OpenPhase, EventPhase, Workers

\* The steps to and from the publication of an initial reply.
LEMMA InitialSteps ==
  ASSUME Inv, TypeOK, [Next]_vars
  PROVE  \/ pc = "initial" /\ UNCHANGED <<pc, cur>>
         \/ pc # "initial" /\ pc' # "initial"
         \/ PublishInitial
         \/ pc = "initial" /\ CycleFails
         \/ \E e \in todo : OpenTicket(e)
<1>1. CASE \/ BeginCycle \/ BeginEvents \/ Commit \/ CycleFails \/ FetchComments \/ EndComments
           \/ PublishEvent \/ UpdateRow
           \/ \E e \in todo : SkipUnknown(e) \/ SkipUnobserved(e) \/ StatusEvent(e) \/ NoStatusChange(e)
           \/ \E c \in Comments : NextComment(c)
  BY <1>1 DEF BeginCycle, BeginEvents, Commit, CycleFails, Sleep, FetchComments, EndComments,
     PublishEvent, UpdateRow, SkipUnknown, SkipUnobserved, StatusEvent, NoStatusChange, SameStatus,
     NextComment, InsertEvent
<1>2. CASE Tick \/ Zendesk \/ Workers \/ UNCHANGED vars
  BY <1>2 DEF Tick, Zendesk, CreateTicket, PostComment, SetStatus, Appears, Workers, CloseTicket,
     FilterTicket, StoreConversation, RefreshComments, vars, cycle
<1> QED
  BY <1>1, <1>2 DEF Next, Poll, OpenPhase, EventPhase

LEMMA MissingSteps ==
  ASSUME Inv, TypeOK, TypeOK', [Next]_vars
  PROVE  \E x : /\ Missing' \subseteq Missing \cup {x}
                /\ \/ Unexplained' \subseteq Unexplained
                   \/ faults + 1 <= faults' /\ Unexplained' \subseteq Unexplained \cup {x}
<1>1. \A t \in Tickets : InitialReply(t) \in Jobs
  BY DEF Jobs
<1>2. \A t \in Tickets : jobs'[InitialReply(t)] = 0 => jobs[InitialReply(t)] = 0
  <2>1. \A j \in Jobs : jobs[j] > 0 => jobs'[j] > 0
    BY HistoryGrows
  <2>2. \A j \in Jobs : jobs'[j] = 0 => jobs[j] = 0
    BY <2>1 DEF TypeOK
  <2> QED
    BY <1>1, <2>2
<1>3. (\A t \in Tickets : row'[t] # "none" => row[t] # "none") => Missing' \subseteq Missing
  BY <1>2 DEF Missing, InitialReply
<1>4. ASSUME NEW e \in todo, OpenTicket(e)
      PROVE  Missing' \subseteq Missing \cup {e.id} /\ Unexplained' \subseteq Unexplained
  <2>1. e.id \in Tickets /\ pc = "open" /\ row' = [row EXCEPT ![e.id] = e.status]
    BY <1>4 DEF OpenTicket, TypeOK, Listed, Upsert
  <2>2. \A t \in Tickets \ {e.id} : row'[t] = row[t]
    BY <2>1 DEF TypeOK
  <2>3. Missing' \subseteq Missing \cup {e.id}
    BY <1>2, <2>2 DEF Missing, InitialReply
  <2>4. CASE IsNew(e)
    BY <1>4, <2>1, <2>3, <2>4 DEF OpenTicket, Unexplained
  <2>5. CASE ~IsNew(e)
    <3>1. Missing' \subseteq Missing
      BY <1>2, <2>1, <2>2, <2>5 DEF IsNew, Missing, InitialReply
    <3> QED
      BY <1>4, <2>1, <2>3, <2>5, <3>1 DEF OpenTicket, Unexplained
  <2> QED
    BY <2>4, <2>5
<1>5. CASE PublishInitial
  <2>1. /\ pc = "initial" /\ pc' = "open" /\ cur.id \in Tickets /\ UNCHANGED row
        /\ PublishJob(InitialReply(cur.id))
    BY <1>5 DEF PublishInitial, tables, Inv, CurHasRow, Busy, Listed
  <2>2. Missing' \subseteq Missing /\ Unexplained' = Missing' /\ Missing \subseteq Unexplained \cup {cur.id}
    BY <1>3, <2>1 DEF Unexplained
  <2>3. faults + 1 <= faults' \/ jobs'[InitialReply(cur.id)] > jobs[InitialReply(cur.id)]
    BY <1>1, <2>1, PublishFaults, PollerAssumption DEF TypeOK
  <2>4. CASE jobs'[InitialReply(cur.id)] > jobs[InitialReply(cur.id)]
    <3>1. jobs'[InitialReply(cur.id)] # 0
      BY <1>1, <2>1, <2>4 DEF TypeOK
    <3>2. \A t \in Missing' : t # cur.id
      BY <3>1 DEF Missing, InitialReply
    <3> QED
      BY <2>2, <3>2
  <2> QED
    BY <2>2, <2>3, <2>4
<1>6. CASE pc = "initial" /\ CycleFails
  <2>1. faults + 1 <= faults' /\ pc' = "sleeping" /\ UNCHANGED row
    BY <1>6, PollerAssumption DEF CycleFails, Sleep, TypeOK
  <2>2. Missing' \subseteq Missing /\ Unexplained' = Missing' /\ Missing \subseteq Unexplained \cup {cur.id}
    BY <1>3, <1>6, <2>1 DEF Unexplained
  <2> QED
    BY <2>1, <2>2
<1>7. CASE /\ \A t \in Tickets : row'[t] # "none" => row[t] # "none"
           /\ (pc = "initial" /\ UNCHANGED <<pc, cur>>) \/ (pc # "initial" /\ pc' # "initial")
  BY <1>3, <1>7 DEF Unexplained
<1> QED
  BY <1>4, <1>5, <1>6, <1>7, RowsAppear, InitialSteps

LEMMA NextMissing ==
  ASSUME Inv, TypeOK, TypeOK', MissingBounded, [Next]_vars
  PROVE  MissingBounded'
<1>1. PICK x : /\ Missing' \subseteq Missing \cup {x}
               /\ \/ Unexplained' \subseteq Unexplained
                  \/ faults + 1 <= faults' /\ Unexplained' \subseteq Unexplained \cup {x}
  BY MissingSteps
<1>2. IsFiniteSet(Missing')
  BY <1>1, OneMore DEF MissingBounded
<1>3. Unexplained \subseteq Missing /\ IsFiniteSet(Missing) /\ Cardinality(Unexplained) <= faults
  BY DEF Unexplained, MissingBounded
<1>4. IsFiniteSet(Unexplained) /\ Cardinality(Unexplained) \in Nat /\ faults \in Nat
  <2>1. IsFiniteSet(Unexplained)
    BY <1>3, FS_Subset
  <2> QED
    BY <2>1, FS_CardinalityType, PollerAssumption DEF TypeOK
<1>5. CASE Unexplained' \subseteq Unexplained
  <2>1. IsFiniteSet(Unexplained') /\ Cardinality(Unexplained') <= Cardinality(Unexplained)
    BY <1>4, <1>5, FS_Subset
  <2>2. Cardinality(Unexplained') \in Nat
    BY <2>1, FS_CardinalityType
  <2>3. Cardinality(Unexplained') <= faults'
    BY <1>3, <1>4, <2>1, <2>2, FaultsGrow
  <2> QED
    BY <1>2, <2>3 DEF MissingBounded
<1>6. CASE faults + 1 <= faults' /\ Unexplained' \subseteq Unexplained \cup {x}
  <2>1. IsFiniteSet(Unexplained') /\ Cardinality(Unexplained') <= Cardinality(Unexplained) + 1
    BY <1>4, <1>6, OneMore
  <2>2. Cardinality(Unexplained') \in Nat
    BY <2>1, FS_CardinalityType
  <2>3. Cardinality(Unexplained') <= faults'
    BY <1>3, <1>4, <1>6, <2>1, <2>2, FaultsGrow
  <2> QED
    BY <1>2, <2>3 DEF MissingBounded
<1> QED
  BY <1>1, <1>5, <1>6

\* There are never more tickets without an initial reply than faults have occurred.
THEOREM MissingInvariant == Spec => []MissingBounded
<1>1. Init => MissingBounded
  BY InitMissing
<1>2. Inv /\ TypeOK /\ TypeOK' /\ MissingBounded /\ [Next]_vars => MissingBounded'
  BY NextMissing
<1> QED
  BY <1>1, <1>2, PollerInvariant, PollerTypes, PTL DEF Spec

\* poller.py: between two cycles a known ticket lacks its INITIAL_REPLY job only
\* through a fault, and each fault costs one ticket at most.
THEOREM FaultsExplainMissingReplies == Spec => []MissingInitialReplyNeedsFault
<1>1. MissingBounded => MissingInitialReplyNeedsFault
  BY DEF MissingBounded, MissingInitialReplyNeedsFault, Missing, Unexplained
<1> QED
  BY <1>1, MissingInvariant, PTL

----------------------------------------------------------------------------
\* One publish() for the initial reply of a ticket: each copy but the first is a
\* confirm that was lost.

Copies == \A t \in Tickets : jobs[InitialReply(t)] <= 1 + faults

LEMMA InitCopies == Init => Copies
  BY DEF Init, Copies, Jobs

\* Only PublishInitial adds to the copies of an initial reply.
LEMMA InitialCopies ==
  ASSUME Inv, TypeOK, [Next]_vars
  PROVE  PublishInitial \/ \A t \in Tickets : jobs'[InitialReply(t)] = jobs[InitialReply(t)]
<1>1. CASE PublishEvent
  <2>1. cur \in Listed /\ cur.id \in Tickets /\ key \in KeysOf(cur)
    BY <1>1 DEF PublishEvent, Inv, CurHasRow, Busy, Listed, OwnKey
  <2>2. JobOf(key) \in Jobs /\ \A t \in Tickets : InitialReply(t) \in Jobs /\ JobOf(key) # InitialReply(t)
    BY <2>1, JobOfOwnKey, JobsAreOwned DEF Jobs
  <2>3. \A k \in Jobs : k # JobOf(key) => jobs'[k] = jobs[k]
    BY <1>1, <2>2, PublishEffect DEF PublishEvent, TypeOK
  <2> QED
    BY <2>2, <2>3
<1>2. CASE UNCHANGED jobs
  BY <1>2
<1>3. CASE (Poll \/ CycleFails) /\ ~PublishInitial /\ ~PublishEvent
  BY <1>2, <1>3 DEF Poll, OpenPhase, EventPhase, BeginCycle, OpenTicket, BeginEvents, SkipUnknown,
     SkipUnobserved, StatusEvent, NoStatusChange, FetchComments, EndComments, NextComment, UpdateRow,
     Commit, CycleFails
<1>4. CASE Tick \/ Zendesk \/ Workers \/ UNCHANGED vars
  BY <1>2, <1>4 DEF Tick, Zendesk, CreateTicket, PostComment, SetStatus, Appears, vars, Workers,
     CloseTicket, FilterTicket, RefreshComments, StoreConversation
<1> QED
  BY <1>1, <1>3, <1>4 DEF Next

LEMMA NextCopies ==
  ASSUME Inv, TypeOK, TypeOK', Copies, [Next]_vars
  PROVE  Copies'
<1>1. faults \in Nat /\ faults' \in Nat /\ faults <= faults'
  BY FaultsGrow
<1>2. \A t \in Tickets : InitialReply(t) \in Jobs /\ jobs[InitialReply(t)] \in Nat
  BY DEF Jobs, TypeOK
<1>3. CASE \A t \in Tickets : jobs'[InitialReply(t)] = jobs[InitialReply(t)]
  <2>1. \A t \in Tickets : jobs'[InitialReply(t)] <= 1 + faults'
    BY <1>1, <1>2, <1>3 DEF Copies
  <2> QED
    BY <2>1 DEF Copies, InitialReply
<1>4. CASE PublishInitial
  <2> DEFINE j == InitialReply(cur.id)
  <2>1. cur.id \in Tickets /\ PublishJob(j) /\ jobs[j] = 0 /\ j \in Jobs
    BY <1>2, <1>4 DEF PublishInitial, Inv, CurHasRow, Busy, Listed, InitialOnce
  <2>2. jobs'[j] <= jobs[j] + 1 + (faults' - faults) /\ jobs'[j] \in Nat
    <3> HIDE DEF j
    <3> QED
      BY <1>1, <2>1, PublishFaults DEF TypeOK
  <2>3. jobs'[j] <= 1 + faults'
    BY <1>1, <2>1, <2>2
  <2>4. \A k \in Jobs : k # j => jobs'[k] = jobs[k]
    <3> HIDE DEF j
    <3> QED
      BY <2>1, PublishEffect DEF TypeOK
  <2>5. \A t \in Tickets : jobs'[InitialReply(t)] <= 1 + faults'
    BY <1>1, <1>2, <2>3, <2>4 DEF Copies
  <2> QED
    BY <2>5 DEF Copies, InitialReply
<1> QED
  BY <1>3, <1>4, InitialCopies

\* poller.py, rabbitmq_queue.py: a ticket gets one publish() of its initial reply,
\* however often cycles fail, and more than one copy only for confirms that the
\* publisher's retry loop has lost.
THEOREM InitialReplyOnce == Spec => []OneInitialReply
<1>1. Init => Copies
  BY InitCopies
<1>2. Inv /\ TypeOK /\ TypeOK' /\ Copies /\ [Next]_vars => Copies'
  BY NextCopies
<1>3. Inv /\ Copies => OneInitialReply
  BY DEF Inv, InitialOnce, Copies, OneInitialReply
<1> QED
  BY <1>1, <1>2, <1>3, PollerInvariant, PollerTypes, PTL DEF Spec

----------------------------------------------------------------------------
\* What a cycle lists, and what it can lack.

\* From BeginEvents to the end of the cycle.
EventSteps == {"events", "publish", "update", "fetch", "comments"}

\* Rows and events stay, ticket updates go forward.
LEMMA RowsStay ==
  ASSUME Inv, TypeOK, [Next]_vars
  PROVE  \A t \in Tickets : row[t] # "none" => row'[t] # "none"
<1>1. ASSUME NEW t \in Tickets, NEW s \in Statuses, NEW observe \in BOOLEAN, Upsert(t, s, observe)
      PROVE  \A u \in Tickets : row[u] # "none" => row'[u] # "none"
  <2>1. Types
    BY DEF Inv
  <2> QED
    BY <1>1, <2>1, UpsertEffect
<1>2. CASE \E e \in todo : OpenTicket(e) \/ SkipUnobserved(e)
  BY <1>1, <1>2 DEF OpenTicket, SkipUnobserved, TypeOK, Listed
<1>3. CASE UpdateRow
  BY <1>1, <1>3 DEF UpdateRow, Inv, CurHasRow, Busy, Listed
<1>4. CASE \E t \in Tickets : FilterTicket(t)
  BY <1>1, <1>4 DEF FilterTicket, Statuses
<1>5. CASE \/ BeginCycle \/ BeginEvents \/ Commit \/ CycleFails \/ FetchComments \/ EndComments
           \/ PublishInitial \/ PublishEvent
           \/ \E e \in todo : SkipUnknown(e) \/ StatusEvent(e) \/ NoStatusChange(e)
           \/ \E c \in Comments : NextComment(c)
  BY <1>5 DEF BeginCycle, BeginEvents, Commit, CycleFails, FetchComments, EndComments,
     PublishInitial, PublishEvent, SkipUnknown, StatusEvent, NoStatusChange, NextComment, tables
<1>6. CASE \/ Tick \/ Zendesk \/ UNCHANGED vars
           \/ \E v \in Tickets : CloseTicket(v) \/ \E time \in 1..clock : RefreshComments(v, time)
           \/ \E c \in Comments : StoreConversation(c)
  BY <1>6 DEF Tick, Zendesk, CreateTicket, PostComment, SetStatus, Appears, vars, CloseTicket,
     RefreshComments, StoreConversation, tables
<1> QED
  BY <1>2, <1>3, <1>4, <1>5, <1>6 DEF Next, Poll, OpenPhase, EventPhase, Workers

LEMMA EventsStored ==
  ASSUME [Next]_vars
  PROVE  events \subseteq events'
<1>1. CASE \/ BeginCycle \/ BeginEvents \/ Commit \/ CycleFails \/ FetchComments \/ EndComments
           \/ PublishInitial \/ PublishEvent \/ UpdateRow
           \/ \E e \in todo : OpenTicket(e) \/ SkipUnknown(e) \/ SkipUnobserved(e) \/ StatusEvent(e)
                              \/ NoStatusChange(e)
           \/ \E c \in Comments : NextComment(c)
  BY <1>1 DEF BeginCycle, BeginEvents, Commit, CycleFails, Rollback, FetchComments, EndComments,
     PublishInitial, PublishEvent, UpdateRow, OpenTicket, SkipUnknown, SkipUnobserved, StatusEvent,
     NoStatusChange, NextComment, tables
<1>2. CASE Tick \/ Zendesk \/ Workers \/ UNCHANGED vars
  BY <1>2 DEF Tick, Zendesk, CreateTicket, PostComment, SetStatus, Appears, vars, Workers,
     CloseTicket, FilterTicket, RefreshComments, StoreConversation, tables
<1> QED
  BY <1>1, <1>2 DEF Next, Poll, OpenPhase, EventPhase

LEMMA UpdatesGoForward ==
  ASSUME TypeOK, Past, [Next]_vars, NEW t \in Tickets
  PROVE  \/ updated'[t] = updated[t] /\ status'[t] = status[t]
         \/ updated'[t] = clock /\ updated[t] <= clock
<1>1. updated[t] <= clock
  BY DEF Past, ZendeskPast
<1>2. CASE Tick \/ Zendesk
  BY <1>1, <1>2, ZendeskTouches
<1>3. CASE Poll \/ CycleFails \/ Workers
  BY <1>3, ListSteps
<1>4. CASE UNCHANGED vars
  BY <1>4 DEF vars
<1> QED
  BY <1>2, <1>3, <1>4 DEF Next

\* An update that is not listed comes after all that are.
LEMMA UnlistedIsLater ==
  ASSUME TypeOK, NEW after, NEW statuses, Fetch(after, statuses),
         NEW t \in Tickets \ hidden, status[t] \in statuses, updated[t] >= after
  PROVE  \/ \E e \in todo' : e.id = t
         \/ cut' = TRUE /\ \A e \in todo' : e.updated <= updated[t]
<1> DEFINE f == [id |-> t, status |-> status[t], updated |-> updated[t]]
<1>1. f \in Listing(after, statuses) /\ f.id = t /\ f.updated = updated[t]
  BY DEF Listing, ListedSince
<1> HIDE DEF f
<1>2. CASE todo' = Listing(after, statuses)
  BY <1>1, <1>2
<1>3. CASE cut' = TRUE /\ Prefix(todo', Listing(after, statuses))
  <2>1. CASE f \in todo'
    BY <1>1, <2>1
  <2>2. CASE f \notin todo'
    BY <1>1, <1>3, <2>2 DEF Prefix
  <2> QED
    BY <2>1, <2>2
<1> QED
  BY <1>2, <1>3 DEF Fetch

\* Where the tickets checkpoint will be: before the last update of every active
\* ticket without a row that the old one has not passed, and that was listed.
TicketsAhead ==
    /\ pc \in {"open", "initial"} =>
        /\ \A e \in todo : latest <= e.updated
        /\ \A t \in Tickets : AheadOfCheckpoint(t) =>
            \/ t \in missed
            \/ \E e \in todo : e.id = t
            \/ latest <= updated[t] /\ \A e \in todo : e.updated <= updated[t]
    /\ pc \in EventSteps =>
        \A t \in Tickets : AheadOfCheckpoint(t) => t \in missed \/ tx.cpTickets <= updated[t]

LEMMA InitAhead == Init => TicketsAhead
  BY DEF Init, TicketsAhead, EventSteps

\* A ticket that a listing lacked stays so until its next update or the next listing.
LEMMA MissedStays ==
  ASSUME TypeOK, [Next]_vars, ~BeginCycle, NEW t \in missed
  PROVE  t \in missed' \/ updated'[t] = clock
<1>1. CASE Poll \/ CycleFails
  BY <1>1 DEF Poll, OpenPhase, EventPhase, OpenTicket, PublishInitial, BeginEvents, SkipUnknown,
     SkipUnobserved, StatusEvent, NoStatusChange, FetchComments, EndComments, NextComment,
     PublishEvent, UpdateRow, Commit, CycleFails, history
<1>2. CASE Tick \/ Workers \/ UNCHANGED vars \/ \E u \in Tickets : Appears(u)
  BY <1>2 DEF Tick, Workers, CloseTicket, FilterTicket, RefreshComments, StoreConversation, Appears,
     vars, history
<1>3. ASSUME NEW u, NEW s, Touch(u, s)
      PROVE  t \in missed' \/ updated'[t] = clock
  BY <1>3 DEF Touch, TypeOK
<1>4. CASE \/ \E c \in Comments : CreateTicket(c) \/ PostComment(c)
           \/ \E u \in Tickets, s \in Statuses : SetStatus(u, s)
  BY <1>3, <1>4 DEF CreateTicket, PostComment, SetStatus
<1> QED
  BY <1>1, <1>2, <1>4 DEF Next, Zendesk

\* A ticket that awaits its row did so before, or has just been updated.
LEMMA AwaitsStep ==
  ASSUME Inv, TypeOK, Past, [Next]_vars, ~BeginCycle, cpTickets' = cpTickets, NEW t \in Tickets,
         AheadOfCheckpoint(t)'
  PROVE  \/ /\ AheadOfCheckpoint(t) /\ updated'[t] = updated[t]
            /\ t \in missed => t \in missed' \/ updated'[t] = clock
         \/ updated'[t] = clock
<1>1. row[t] = "none"
  BY RowsStay DEF AheadOfCheckpoint
<1> QED
  BY <1>1, UpdatesGoForward, MissedStays DEF AheadOfCheckpoint

LEMMA NextAhead ==
  ASSUME Inv, TypeOK, TypeOK', Past, TicketsAhead, [Next]_vars
  PROVE  TicketsAhead'
<1> USE DEF TypeOK
<1>1. /\ clock \in Nat /\ latest \in Nat /\ tx.cpTickets \in Nat /\ cpTickets \in Nat
      /\ latest <= clock /\ tx.cpTickets <= clock
      /\ \A t \in Tickets : updated[t] \in Nat /\ updated[t] <= clock
      /\ \A e \in todo : e.updated \in Nat /\ e.updated <= clock /\ e.id \in Tickets
  <2>1. \A t \in Tickets : updated[t] \in Nat /\ updated[t] <= clock
    BY PollerAssumption DEF Times, Past, ZendeskPast
  <2>2. clock \in Nat /\ latest \in Nat /\ tx.cpTickets \in Nat /\ cpTickets \in Nat
    BY PollerAssumption DEF Times
  <2>3. \A e \in todo : e.updated \in Nat /\ e.updated <= updated[e.id] /\ e.id \in Tickets
    BY PollerAssumption DEF Times, Past, ListsPast, OfItsTicket, Listed
  <2> QED
    BY <2>1, <2>2, <2>3 DEF Past, Horizon
<1>2. ASSUME UNCHANGED <<cpTickets, todo, latest>>, tx'.cpTickets = tx.cpTickets,
             pc' \in {"open", "initial"} => pc \in {"open", "initial"},
             pc' \in EventSteps => pc \in EventSteps
      PROVE  TicketsAhead'
  <2>0. pc' \in {"open", "initial"} \cup EventSteps => ~BeginCycle
    BY <1>2 DEF BeginCycle, EventSteps
  <2>1. ASSUME ~BeginCycle, NEW t \in Tickets, AheadOfCheckpoint(t)'
        PROVE  \/ /\ AheadOfCheckpoint(t) /\ updated'[t] = updated[t]
                  /\ t \in missed => t \in missed' \/ updated'[t] = clock
               \/ updated'[t] = clock
    BY <1>2, <2>1, AwaitsStep
  <2>2. pc' \in {"open", "initial"} =>
          /\ \A e \in todo' : latest' <= e.updated
          /\ \A t \in Tickets : AheadOfCheckpoint(t)' =>
              \/ t \in missed'
              \/ \E e \in todo' : e.id = t
              \/ latest' <= updated'[t] /\ \A e \in todo' : e.updated <= updated'[t]
    BY <1>1, <1>2, <2>0, <2>1 DEF TicketsAhead
  <2>3. pc' \in EventSteps => \A t \in Tickets : AheadOfCheckpoint(t)' =>
                                 t \in missed' \/ tx'.cpTickets <= updated'[t]
    BY <1>1, <1>2, <2>0, <2>1 DEF TicketsAhead
  <2> QED
    BY <2>2, <2>3 DEF TicketsAhead, AheadOfCheckpoint
<1>3. CASE BeginCycle
  <2>1. /\ UNCHANGED <<status, updated, row, cpTickets>> /\ pc' = "open"
        /\ latest' = Checkpoint(cpTickets) /\ Fetch(Checkpoint(cpTickets), Active)
        /\ missed' = {t \in hidden : row[t] = "none"}
    BY <1>3 DEF BeginCycle, zendesk, tables
  <2>2. \A e \in todo' : e.updated >= latest'
    BY <2>1, FetchLists
  <2>4. ASSUME NEW t \in Tickets, AheadOfCheckpoint(t)
        PROVE  \/ t \in missed'
               \/ \E e \in todo' : e.id = t
               \/ latest' <= updated[t] /\ \A e \in todo' : e.updated <= updated[t]
    <3>1. Checkpoint(cpTickets) = cpTickets
      BY <2>4, CheckpointEffect DEF AheadOfCheckpoint, Past, Horizon
    <3>2. status[t] \in Active /\ updated[t] >= Checkpoint(cpTickets)
      BY <2>4, <3>1 DEF AheadOfCheckpoint, Active
    <3>3. CASE t \in hidden
      BY <2>1, <2>4, <3>3 DEF AheadOfCheckpoint
    <3>4. CASE t \notin hidden
      BY <2>1, <3>1, <3>2, <3>4, UnlistedIsLater
    <3> QED
      BY <3>3, <3>4
  <2>5. \A e \in todo' : latest' <= e.updated
    <3>1. latest' \in Nat /\ \A e \in todo' : e.updated \in Nat
      BY PollerAssumption DEF Times, Listed
    <3> QED
      BY <2>2, <3>1
  <2> QED
    BY <2>1, <2>4, <2>5 DEF TicketsAhead, AheadOfCheckpoint, EventSteps
<1>4. ASSUME NEW e \in todo, OpenTicket(e)
      PROVE  TicketsAhead'
  <2>1. /\ pc = "open" /\ pc' \in {"open", "initial"} /\ todo' = todo \ {e}
        /\ latest' = Later(latest, e.updated) /\ \A f \in todo : e.updated <= f.updated
        /\ UNCHANGED <<status, updated, cpTickets, missed>>
        /\ row' = [row EXCEPT ![e.id] = e.status] /\ e.status # "none"
    BY <1>4 DEF OpenTicket, Oldest, LatestSeen, Upsert, zendesk, history, Past, ListsPast
  <2>2. \A f \in todo' : latest' <= f.updated
    BY <1>1, <2>1 DEF TicketsAhead, Later
  <2>3. ASSUME NEW t \in Tickets, AheadOfCheckpoint(t)'
        PROVE  \/ t \in missed'
               \/ \E f \in todo' : f.id = t
               \/ latest' <= updated'[t] /\ \A f \in todo' : f.updated <= updated'[t]
    <3>1. t # e.id /\ AheadOfCheckpoint(t)
      BY <1>1, <2>1, <2>3 DEF AheadOfCheckpoint
    <3> QED
      BY <1>1, <2>1, <3>1 DEF TicketsAhead, Later
  <2> QED
    BY <2>1, <2>2, <2>3 DEF TicketsAhead, AheadOfCheckpoint, EventSteps
<1>5. CASE BeginEvents
  <2>1. /\ pc = "open" /\ pc' = "events" /\ todo = {} /\ tx'.cpTickets = latest
        /\ UNCHANGED <<status, updated, row, cpTickets, missed>>
    BY <1>5, TxTypes DEF BeginEvents, zendesk, tables
  <2> QED
    BY <2>1 DEF TicketsAhead, AheadOfCheckpoint, EventSteps
<1>6. CASE Commit \/ CycleFails
  BY <1>6 DEF Commit, CycleFails, Sleep, TicketsAhead, EventSteps
<1>7. CASE PublishInitial \/ Tick \/ Zendesk \/ Workers \/ UNCHANGED vars
  <2>1. CASE PublishInitial
    BY <1>2, <2>1 DEF PublishInitial, EventSteps, tables
  <2>2. CASE Tick \/ Zendesk \/ UNCHANGED vars
    <3>1. UNCHANGED <<cpTickets, todo, latest, tx, pc>>
      BY <2>2 DEF Tick, Zendesk, CreateTicket, PostComment, SetStatus, Appears, vars, tables, cycle
    <3> QED
      BY <1>2, <3>1
  <2>3. CASE Workers
    <3>1. UNCHANGED <<cpTickets, todo, latest, tx, pc>>
      BY <2>3 DEF Workers, CloseTicket, FilterTicket, RefreshComments, StoreConversation, cycle
    <3> QED
      BY <1>2, <3>1
  <2> QED
    BY <1>7, <2>1, <2>2, <2>3
<1>8. ASSUME pc \in EventSteps, pc' \in EventSteps, UNCHANGED cpTickets, tx'.cpTickets = tx.cpTickets
      PROVE  TicketsAhead'
  <2>0. ~BeginCycle
    BY <1>8 DEF BeginCycle, EventSteps
  <2>1. \A t \in Tickets : AheadOfCheckpoint(t)' => t \in missed' \/ tx'.cpTickets <= updated'[t]
    BY <1>1, <1>8, <2>0, AwaitsStep DEF TicketsAhead
  <2> QED
    BY <1>8, <2>1 DEF TicketsAhead, AheadOfCheckpoint, EventSteps
<1>9. ASSUME NEW k \in EventKeys, NEW wantsJob, InsertEvent(k, wantsJob)
      PROVE  tx'.cpTickets = tx.cpTickets /\ pc' \in EventSteps
  BY <1>9, TxTypes DEF InsertEvent, EventSteps
<1>10. CASE (\E e \in todo : StatusEvent(e)) \/ \E c \in Comments : NextComment(c)
  BY <1>8, <1>9, <1>10, EventKeyTypes DEF StatusEvent, NextComment, EventSteps, tables
<1>11. CASE \/ FetchComments \/ EndComments \/ PublishEvent \/ UpdateRow
            \/ \E e \in todo : SkipUnknown(e) \/ SkipUnobserved(e) \/ NoStatusChange(e)
  BY <1>8, <1>11 DEF FetchComments, EndComments, PublishEvent, UpdateRow, SkipUnknown,
     SkipUnobserved, NoStatusChange, SameStatus, EventSteps, tables
<1> QED
  BY <1>3, <1>4, <1>5, <1>6, <1>7, <1>10, <1>11 DEF Next, Poll, OpenPhase, EventPhase

\* Only the commit moves the tickets checkpoint.
LEMMA CheckpointSteps ==
  ASSUME [Next]_vars
  PROVE  UNCHANGED <<cpTickets, cpEvents>> \/ Commit
<1>1. CASE Poll \/ CycleFails
  BY <1>1 DEF Poll, OpenPhase, EventPhase, BeginCycle, OpenTicket, PublishInitial, BeginEvents,
     SkipUnknown, SkipUnobserved, StatusEvent, NoStatusChange, FetchComments, EndComments,
     NextComment, PublishEvent, UpdateRow, CycleFails, Rollback, tables
<1>2. CASE Tick \/ Zendesk \/ Workers \/ UNCHANGED vars
  BY <1>2 DEF Tick, Zendesk, CreateTicket, PostComment, SetStatus, Appears, vars, Workers,
     CloseTicket, FilterTicket, RefreshComments, StoreConversation, tables
<1> QED
  BY <1>1, <1>2 DEF Next

LEMMA NextLeavesNoTicket ==
  ASSUME Inv, TypeOK, Past, TicketsAhead, [Next]_vars
  PROVE  [\A t \in Tickets :
            AheadOfCheckpoint(t) /\ row'[t] = "none" => updated'[t] >= cpTickets' \/ t \in missed']_vars
<1> SUFFICES ASSUME NEW t \in Tickets, AheadOfCheckpoint(t)
             PROVE  updated'[t] >= cpTickets' \/ t \in missed'
  OBVIOUS
<1>1. /\ clock \in Nat /\ updated[t] \in Nat /\ cpTickets \in Nat /\ tx.cpTickets \in Nat
      /\ updated[t] >= cpTickets
  BY PollerAssumption DEF TypeOK, Times, AheadOfCheckpoint
<1>2. CASE UNCHANGED cpTickets
  BY <1>1, <1>2, UpdatesGoForward
<1>3. CASE Commit
  <2>1. pc \in EventSteps /\ cpTickets' = tx.cpTickets /\ UNCHANGED <<updated, missed>>
    BY <1>3 DEF Commit, EventSteps, zendesk, history
  <2> QED
    BY <1>1, <2>1 DEF TicketsAhead
<1> QED
  BY <1>2, <1>3, CheckpointSteps

\* poller.py: no ticket is overtaken by the checkpoint, whatever listing is cut
\* short, whatever cycle fails and whenever tickets are updated, but one whose last
\* update Zendesk did not list when the cycle asked for it.
THEOREM CheckpointLeavesNoTicket == Spec => NoTicketLeftBehind
<1>1. Init => TicketsAhead
  BY InitAhead
<1>2. Inv /\ TypeOK /\ TypeOK' /\ Past /\ TicketsAhead /\ [Next]_vars => TicketsAhead'
  BY NextAhead
<1>3. Inv /\ TypeOK /\ Past /\ TicketsAhead /\ [Next]_vars =>
        [\A t \in Tickets :
            AheadOfCheckpoint(t) /\ row'[t] = "none" => updated'[t] >= cpTickets' \/ t \in missed']_vars
  BY NextLeavesNoTicket
<1> QED
  BY <1>1, <1>2, <1>3, PollerInvariant, PollerTypes, ListsAreOfThePast, PTL DEF Spec, NoTicketLeftBehind

----------------------------------------------------------------------------
\* Comments posted between two cycles on an observed ticket.

\* Such a comment has its ticket known and a checkpoint before it; a cycle reads
\* from that checkpoint and never sets it back.
FreshKnown ==
    /\ \A c \in fresh : posted[c] > 0 /\ row[TicketOf[c]] # "none"
    /\ fresh # {} => /\ cpEvents > 0
                     /\ pc # "sleeping" => from = cpEvents
                     /\ pc \in EventSteps => from <= latest

\* The cycle that reads the events has yet to come to the comment: its ticket is
\* on the list, or in hand, or the comment is among those fetched.
OnItsWay(c) ==
    \/ \E e \in todo : e.id = TicketOf[c]
    \/ pc \in {"publish", "update"} /\ IsStatus(key) /\ cur.id = TicketOf[c]
    \/ pc = "fetch" /\ cur.id = TicketOf[c]
    \/ c \in comments /\ (pc \in {"publish", "update"} => ~IsStatus(key))

QuietOnTheirWay ==
    pc \in EventSteps =>
        \A c \in fresh : ~cut /\ observing[TicketOf[c]] => CommentKey(c) \in Recorded \/ OnItsWay(c)

Quiet == FreshKnown /\ QuietCommentsAreRecorded /\ QuietOnTheirWay

LEMMA InitQuiet == Init => Quiet
  BY DEF Init, Quiet, FreshKnown, QuietCommentsAreRecorded, QuietOnTheirWay, EventSteps

\* What becomes of fresh comments and of their ticket's observation.
LEMMA FreshSteps ==
  ASSUME Inv, TypeOK, Past, FreshKnown, [Next]_vars
  PROVE  /\ \A c \in fresh : posted'[c] = posted[c]
         /\ \/ fresh' = fresh
            \/ BeginEvents /\ fresh' = {c \in fresh : TicketOf[c] \notin hidden}
            \/ \E c \in Comments :
                /\ PostComment(c) /\ fresh' = fresh \cup {c} /\ pc = "sleeping"
                /\ row[TicketOf[c]] # "none" /\ 0 < cpEvents /\ cpEvents < clock
         /\ \A t \in Tickets : observing'[t] => observing[t]
         /\ ~cut' => ~cut
<1>1. \A t \in Tickets : observing'[t] => observing[t]
  <2>1. observing' = observing \/ \A u \in Tickets : ~observing[u] => ~observing'[u]
    BY NextKeepsUnobserved DEF vars
  <2> QED
    BY <2>1
<1>2. CASE Tick \/ (\E t \in Tickets : (\E s \in Statuses : SetStatus(t, s)) \/ Appears(t)) \/ UNCHANGED vars
  BY <1>1, <1>2 DEF Tick, SetStatus, Appears, vars, history
<1>3. ASSUME NEW c \in Comments, CreateTicket(c)
      PROVE  UNCHANGED <<fresh, cut>> /\ \A d \in fresh : posted'[d] = posted[d]
  <2>1. c \notin fresh
    BY <1>3 DEF CreateTicket, FreshKnown, Past, ZendeskPast
  <2> QED
    BY <1>3, <2>1 DEF CreateTicket, history, TypeOK
<1>4. ASSUME NEW c \in Comments, PostComment(c)
      PROVE  /\ UNCHANGED cut /\ \A d \in fresh : posted'[d] = posted[d]
             /\ \/ fresh' = fresh
                \/ /\ fresh' = fresh \cup {c} /\ pc = "sleeping"
                   /\ row[TicketOf[c]] # "none" /\ 0 < cpEvents /\ cpEvents < clock
  <2>1. c \notin fresh
    BY <1>4 DEF PostComment, FreshKnown
  <2>2. posted' = [posted EXCEPT ![c] = clock] /\ posted \in [Comments -> Times]
    BY <1>4 DEF PostComment, TypeOK
  <2>3. \A d \in fresh : posted'[d] = posted[d]
    BY <2>1, <2>2 DEF TypeOK
  <2>4. \/ fresh' = fresh
        \/ /\ fresh' = fresh \cup {c} /\ pc = "sleeping"
           /\ row[TicketOf[c]] # "none" /\ 0 < cpEvents /\ cpEvents < clock
    BY <1>4 DEF PostComment
  <2>5. UNCHANGED cut
    BY <1>4 DEF PostComment
  <2> QED
    BY <2>3, <2>4, <2>5
<1>5. CASE Workers
  <2>1. UNCHANGED <<posted, fresh, cut>>
    BY <1>5 DEF Workers, CloseTicket, FilterTicket, StoreConversation, RefreshComments, zendesk, history
  <2> QED
    BY <1>1, <2>1
<1>6. CASE Poll \/ CycleFails
  <2>1. UNCHANGED posted
    BY <1>6, ListSteps
  <2>2. ASSUME NEW after, NEW statuses, Fetch(after, statuses)
        PROVE  ~cut' => ~cut
    BY <2>2, FetchTypes
  <2>3. CASE BeginCycle \/ BeginEvents
    BY <1>1, <2>1, <2>2, <2>3 DEF BeginCycle, BeginEvents
  <2>4. CASE ~(BeginCycle \/ BeginEvents)
    <3>1. UNCHANGED <<fresh, cut>>
      BY <1>6, <2>4 DEF Poll, OpenPhase, EventPhase, OpenTicket, PublishInitial, SkipUnknown,
         SkipUnobserved, StatusEvent, NoStatusChange, FetchComments, EndComments, NextComment,
         PublishEvent, UpdateRow, Commit, CycleFails, history
    <3> QED
      BY <1>1, <2>1, <3>1
  <2> QED
    BY <2>3, <2>4
<1> QED
  BY <1>1, <1>2, <1>3, <1>4, <1>5, <1>6 DEF Next, Zendesk

\* The checkpoint and the time that a cycle reads from.
LEMMA FromSteps ==
  ASSUME Inv, TypeOK, Past, [Next]_vars
  PROVE  \/ UNCHANGED <<cpEvents, from, pc, latest>>
         \/ BeginCycle
         \/ BeginEvents
         \/ pc \in EventSteps /\ pc' \in EventSteps /\ UNCHANGED <<cpEvents, from>> /\ latest <= latest'
         \/ pc \in {"open", "initial"} /\ pc' \in {"open", "initial"} /\ UNCHANGED <<cpEvents, from>>
         \/ pc' = "sleeping" /\ (UNCHANGED cpEvents \/ Commit)
<1>1. CASE Tick \/ Zendesk \/ UNCHANGED vars
  BY <1>1 DEF Tick, Zendesk, CreateTicket, PostComment, SetStatus, Appears, vars, tables, cycle
<1>2. CASE Workers
  BY <1>2 DEF Workers, CloseTicket, FilterTicket, StoreConversation, RefreshComments, cycle
<1>3. latest \in Nat
  BY PollerAssumption DEF TypeOK, Times
<1>4. CASE \/ FetchComments \/ EndComments \/ PublishEvent
           \/ \E e \in todo : SkipUnknown(e) \/ SkipUnobserved(e) \/ NoStatusChange(e) \/ StatusEvent(e)
           \/ \E c \in Comments : NextComment(c)
  <2>1. UNCHANGED <<cpEvents, from, latest>>
    BY <1>4 DEF FetchComments, EndComments, PublishEvent, SkipUnknown, SkipUnobserved,
       NoStatusChange, StatusEvent, NextComment, tables
  <2>2. pc \in EventSteps /\ pc' \in EventSteps
    BY <1>4 DEF FetchComments, EndComments, PublishEvent, SkipUnknown, SkipUnobserved,
       NoStatusChange, SameStatus, StatusEvent, NextComment, InsertEvent, EventSteps
  <2> QED
    BY <1>3, <2>1, <2>2
<1>5. CASE UpdateRow
  <2>1. TimeOf(key) \in Nat
    <3>1. cur \in Listed /\ key \in KeysOf(cur)
      BY <1>5 DEF UpdateRow, Inv, CurHasRow, Busy, OwnKey
    <3>2. key \in EventKeys
      BY <3>1, EventKeyTypes DEF KeysOf
    <3> QED
      BY <3>2, TimeOfType, PollerAssumption DEF Times
  <2> QED
    BY <1>3, <1>5, <2>1 DEF UpdateRow, Later, EventSteps
<1>6. CASE PublishInitial \/ \E e \in todo : OpenTicket(e)
  BY <1>6 DEF PublishInitial, OpenTicket, tables
<1>7. CASE Commit \/ CycleFails
  BY <1>7 DEF Commit, CycleFails, Rollback, Sleep
<1> QED
  BY <1>1, <1>2, <1>4, <1>5, <1>6, <1>7 DEF Next, Poll, OpenPhase, EventPhase

LEMMA FreshKnownStep ==
  ASSUME Inv, TypeOK, TypeOK', Past, FreshKnown, [Next]_vars
  PROVE  FreshKnown'
<1>1. ASSUME NEW c \in fresh'
      PROVE  posted'[c] > 0 /\ row'[TicketOf[c]] # "none"
  <2>1. CASE c \in fresh
    <3>1. TicketOf[c] \in Tickets
      BY <2>1, PollerAssumption DEF TypeOK
    <3> QED
      BY <2>1, <3>1, FreshSteps, RowsStay DEF FreshKnown
  <2>2. CASE c \notin fresh
    <3>1. PostComment(c) /\ c \in Comments /\ row[TicketOf[c]] # "none" /\ 0 < cpEvents /\ cpEvents < clock
      BY <1>1, <2>2, FreshSteps
    <3>2. TicketOf[c] \in Tickets /\ clock \in Nat /\ cpEvents \in Nat /\ posted \in [Comments -> Times]
      BY <3>1, PollerAssumption DEF TypeOK, Times
    <3>3. posted' = [posted EXCEPT ![c] = clock]
      BY <3>1 DEF PostComment
    <3> QED
      BY <3>1, <3>2, <3>3, RowsStay
  <2> QED
    BY <2>1, <2>2
<1>2. CASE fresh' # {}
  <2>1. cpEvents > 0 /\ cpEvents \in Nat
    BY <1>2, FreshSteps, PollerAssumption DEF FreshKnown, TypeOK, Times
  <2>2. fresh = {} => pc = "sleeping" /\ UNCHANGED <<pc, cpEvents, from, latest>>
    BY <1>2, FreshSteps DEF PostComment, cycle, tables
  <2>3. /\ pc # "sleeping" => from = cpEvents
        /\ pc \in EventSteps => from <= latest
    BY <2>2 DEF FreshKnown, EventSteps
  <2>4. from \in Nat /\ latest \in Nat /\ latest' \in Nat
    BY PollerAssumption DEF TypeOK, Times
  <2> DEFINE Goal == /\ cpEvents' > 0
                     /\ pc' # "sleeping" => from' = cpEvents'
                     /\ pc' \in EventSteps => from' <= latest'
  <2>5. CASE UNCHANGED <<cpEvents, from, pc, latest>>
    <3>1. Goal
      BY <2>1, <2>3, <2>5
    <3> QED
      BY <1>1, <3>1 DEF FreshKnown
  <2>6. CASE BeginCycle
    <3>1. from' = cpEvents /\ UNCHANGED cpEvents /\ pc' = "open"
      BY <2>1, <2>6, CheckpointEffect DEF BeginCycle, tables, Past, Horizon, TypeOK
    <3> QED
      BY <1>1, <2>1, <3>1 DEF FreshKnown, EventSteps
  <2>7. CASE BeginEvents
    <3>1. UNCHANGED <<from, cpEvents>> /\ latest' = from /\ pc = "open"
      BY <2>7 DEF BeginEvents, tables
    <3> QED
      BY <1>1, <2>1, <2>3, <2>4, <3>1 DEF FreshKnown, EventSteps
  <2>8. CASE pc \in EventSteps /\ pc' \in EventSteps /\ UNCHANGED <<cpEvents, from>> /\ latest <= latest'
    <3>1. pc # "sleeping"
      BY <2>8 DEF EventSteps
    <3>2. Goal
      BY <2>1, <2>3, <2>4, <2>8, <3>1
    <3> QED
      BY <1>1, <3>2 DEF FreshKnown
  <2>9. CASE pc \in {"open", "initial"} /\ pc' \in {"open", "initial"} /\ UNCHANGED <<cpEvents, from>>
    BY <1>1, <2>1, <2>3, <2>9 DEF FreshKnown, EventSteps
  <2>10. CASE pc' = "sleeping" /\ (UNCHANGED cpEvents \/ Commit)
    <3>1. Commit => cpEvents' = latest /\ pc = "events"
      BY DEF Commit
    <3>2. cpEvents' > 0
      BY <2>1, <2>3, <2>4, <2>10, <3>1 DEF EventSteps
    <3> QED
      BY <1>1, <2>10, <3>2 DEF FreshKnown, EventSteps
  <2> QED
    BY <2>5, <2>6, <2>7, <2>8, <2>9, <2>10, FromSteps
<1> QED
  BY <1>1, <1>2 DEF FreshKnown

\* The events that count, over the steps that keep a cycle going.
LEMMA RecordedStays ==
  ASSUME Inv, TypeOK, [Next]_vars, pc \in EventSteps, pc' \in EventSteps
  PROVE  Recorded \subseteq Recorded'
<1>1. ASSUME NEW k \in EventKeys, NEW wantsJob \in BOOLEAN, InsertEvent(k, wantsJob), UNCHANGED events
      PROVE  Recorded \subseteq Recorded'
  BY <1>1, InsertEffect
<1>2. CASE \E e \in todo : StatusEvent(e)
  <2>1. PICK e \in todo : StatusEvent(e)
    BY <1>2
  <2>2. StatusKey(e) \in EventKeys /\ (e.status = "solved") \in BOOLEAN
    BY EventKeyTypes DEF TypeOK
  <2>3. InsertEvent(StatusKey(e), e.status = "solved") /\ UNCHANGED events
    BY <2>1 DEF StatusEvent, tables
  <2> QED
    BY <1>1, <2>2, <2>3
<1>3. CASE \E c \in Comments : NextComment(c)
  <2>1. PICK c \in Comments : NextComment(c)
    BY <1>3
  <2>2. CommentKey(c) \in EventKeys /\ WantsJob(c) \in BOOLEAN
    BY EventKeyTypes DEF WantsJob, SkipsFollowUp
  <2>3. InsertEvent(CommentKey(c), WantsJob(c)) /\ UNCHANGED events
    BY <2>1 DEF NextComment, tables
  <2> QED
    BY <1>1, <2>2, <2>3
<1>4. CASE UNCHANGED tx
  BY <1>4, EventsStored DEF Recorded
<1>5. CASE \/ FetchComments \/ EndComments \/ PublishEvent \/ UpdateRow \/ PublishInitial
           \/ \E e \in todo : SkipUnknown(e) \/ SkipUnobserved(e) \/ NoStatusChange(e) \/ OpenTicket(e)
  BY <1>4, <1>5 DEF FetchComments, EndComments, PublishEvent, UpdateRow, PublishInitial, SkipUnknown,
     SkipUnobserved, NoStatusChange, OpenTicket
<1>6. CASE Tick \/ Zendesk \/ Workers \/ UNCHANGED vars
  BY <1>4, <1>6 DEF Tick, Zendesk, CreateTicket, PostComment, SetStatus, Appears, vars, Workers,
     CloseTicket, FilterTicket, RefreshComments, StoreConversation, cycle
<1>7. CASE BeginCycle \/ BeginEvents \/ Commit \/ CycleFails
  BY <1>7 DEF BeginCycle, BeginEvents, Commit, CycleFails, Sleep, EventSteps
<1> QED
  BY <1>2, <1>3, <1>5, <1>6, <1>7 DEF Next, Poll, OpenPhase, EventPhase

\* One step of the cycle brings a comment that is on its way one step on, or
\* records it.
LEMMA OnItsWayStep ==
  ASSUME Inv, TypeOK, [Next]_vars, pc \in EventSteps, pc' \in EventSteps,
         NEW c \in Comments, row[TicketOf[c]] # "none", observing[TicketOf[c]], posted[c] > from,
         OnItsWay(c)
  PROVE  CommentKey(c) \in Recorded' \/ OnItsWay(c)'
<1> DEFINE t == TicketOf[c]
<1>1. ASSUME UNCHANGED <<pc, key, cur, comments, todo>>
      PROVE  OnItsWay(c)'
  BY <1>1 DEF OnItsWay, IsStatus
<1>2. CASE Tick \/ Zendesk \/ Workers \/ UNCHANGED vars
  BY <1>1, <1>2 DEF Tick, Zendesk, CreateTicket, PostComment, SetStatus, Appears, vars, Workers,
     CloseTicket, FilterTicket, RefreshComments, StoreConversation, cycle
<1>3. CASE pc = "events"
  <2>1. PICK e \in todo : e.id = t
    BY <1>3 DEF OnItsWay, Inv, OwnComments
  <2>2. ASSUME NEW f \in todo, SkipUnknown(f) \/ SkipUnobserved(f)
        PROVE  OnItsWay(c)'
    <3>1. f # e /\ todo' = todo \ {f}
      BY <2>1, <2>2 DEF SkipUnknown, SkipUnobserved
    <3> QED
      BY <2>1, <3>1 DEF OnItsWay
  <2>3. ASSUME NEW f \in todo, StatusEvent(f)
        PROVE  OnItsWay(c)'
    <3>1. todo' = todo \ {f} /\ cur' = f /\ key' = StatusKey(f) /\ pc' \in {"publish", "update"}
      BY <2>3 DEF StatusEvent, InsertEvent
    <3>2. CASE f = e
      BY <2>1, <3>1, <3>2 DEF OnItsWay, IsStatus, StatusKey
    <3>3. CASE f # e
      BY <2>1, <3>1, <3>3 DEF OnItsWay
    <3> QED
      BY <3>2, <3>3
  <2>4. ASSUME NEW f \in todo, NoStatusChange(f)
        PROVE  OnItsWay(c)'
    <3>1. todo' = todo \ {f} /\ cur' = f /\ pc' = "fetch"
      BY <2>4 DEF NoStatusChange, SameStatus
    <3>2. CASE f = e
      BY <2>1, <3>1, <3>2 DEF OnItsWay
    <3>3. CASE f # e
      BY <2>1, <3>1, <3>3 DEF OnItsWay
    <3> QED
      BY <3>2, <3>3
  <2>5. pc # "sleeping" /\ pc' # "sleeping"
    BY DEF EventSteps
  <2> QED
    BY <1>2, <1>3, <2>2, <2>3, <2>4, <2>5
       DEF Next, Poll, OpenPhase, EventPhase, BeginCycle, BeginEvents, OpenTicket, PublishInitial,
           FetchComments, EndComments, PublishEvent, UpdateRow, NextComment, Commit, CycleFails, Sleep
<1>4. CASE pc = "fetch"
  <2>1. CASE FetchComments
    <3>1. /\ UNCHANGED <<todo, cur, key>> /\ pc' = "comments"
          /\ comments' = {d \in Comments : TicketOf[d] = cur.id /\ posted[d] > from}
      BY <2>1 DEF FetchComments
    <3>2. (\E e \in todo : e.id = t) \/ cur.id = t
      BY <1>4 DEF OnItsWay, Inv, OwnComments
    <3>3. cur.id = t => c \in comments'
      BY <3>1
    <3> QED
      BY <3>1, <3>2, <3>3 DEF OnItsWay
  <2>2. pc' # "sleeping"
    BY DEF EventSteps
  <2> QED
    BY <1>2, <1>4, <2>1, <2>2
       DEF Next, Poll, OpenPhase, EventPhase, BeginCycle, BeginEvents, OpenTicket, PublishInitial,
           SkipUnknown, SkipUnobserved, StatusEvent, NoStatusChange, EndComments, PublishEvent,
           UpdateRow, NextComment, Commit, CycleFails, Sleep
<1>5. CASE pc = "comments"
  <2>1. (\E e \in todo : e.id = t) \/ c \in comments
    BY <1>5 DEF OnItsWay
  <2>2. ASSUME NEW d \in Comments, NextComment(d)
        PROVE  CommentKey(c) \in Recorded' \/ OnItsWay(c)'
    <3>1. /\ UNCHANGED <<todo, cur, events>> /\ comments' = comments \ {d} /\ key' = CommentKey(d)
          /\ InsertEvent(CommentKey(d), WantsJob(d))
      BY <2>2 DEF NextComment, InsertEvent, tables
    <3>2. CASE d = c
      <4>1. CommentKey(d) \in EventKeys /\ WantsJob(d) \in BOOLEAN
        BY EventKeyTypes DEF WantsJob, SkipsFollowUp
      <4> QED
        BY <3>1, <3>2, <4>1, InsertEffect
    <3>3. CASE d # c
      BY <2>1, <3>1, <3>3 DEF OnItsWay, IsStatus, CommentKey
    <3> QED
      BY <3>2, <3>3
  <2>3. CASE EndComments
    <3>1. UNCHANGED todo /\ comments = {}
      BY <2>3 DEF EndComments
    <3> QED
      BY <2>1, <3>1 DEF OnItsWay
  <2>4. pc' # "sleeping"
    BY DEF EventSteps
  <2> QED
    BY <1>2, <1>5, <2>2, <2>3, <2>4
       DEF Next, Poll, OpenPhase, EventPhase, BeginCycle, BeginEvents, OpenTicket, PublishInitial,
           SkipUnknown, SkipUnobserved, StatusEvent, NoStatusChange, FetchComments, PublishEvent,
           UpdateRow, Commit, CycleFails, Sleep
<1>6. CASE pc = "publish"
  <2>1. CASE PublishEvent
    <3>1. UNCHANGED <<todo, cur, key, comments>> /\ pc' = "update"
      BY <2>1 DEF PublishEvent
    <3> QED
      BY <1>6, <3>1 DEF OnItsWay, IsStatus
  <2>2. pc' # "sleeping"
    BY DEF EventSteps
  <2> QED
    BY <1>2, <1>6, <2>1, <2>2
       DEF Next, Poll, OpenPhase, EventPhase, BeginCycle, BeginEvents, OpenTicket, PublishInitial,
           SkipUnknown, SkipUnobserved, StatusEvent, NoStatusChange, FetchComments, EndComments,
           UpdateRow, NextComment, Commit, CycleFails, Sleep
<1>7. CASE pc = "update"
  <2>1. CASE UpdateRow
    <3>1. UNCHANGED <<todo, cur, key, comments>> /\ pc' = IF IsStatus(key) THEN "fetch" ELSE "comments"
      BY <2>1 DEF UpdateRow
    <3> QED
      BY <1>7, <3>1 DEF OnItsWay, IsStatus
  <2>2. pc' # "sleeping"
    BY DEF EventSteps
  <2> QED
    BY <1>2, <1>7, <2>1, <2>2
       DEF Next, Poll, OpenPhase, EventPhase, BeginCycle, BeginEvents, OpenTicket, PublishInitial,
           SkipUnknown, SkipUnobserved, StatusEvent, NoStatusChange, FetchComments, EndComments,
           PublishEvent, NextComment, Commit, CycleFails, Sleep
<1> QED
  BY <1>3, <1>4, <1>5, <1>6, <1>7 DEF EventSteps

\* BeginEvents lists the ticket of every comment that is later than the checkpoint.
LEMMA ListingReaches ==
  ASSUME Inv, TypeOK, Past, BeginEvents, ~cut',
         NEW c \in Comments, posted[c] > 0, posted[c] > from, TicketOf[c] \notin hidden
  PROVE  \E e \in todo' : e.id = TicketOf[c]
<1>1. TicketOf[c] \in Tickets
  BY PollerAssumption
<1>2. status[TicketOf[c]] \in Statuses /\ updated[TicketOf[c]] >= from
  <2>1. posted[c] <= updated[TicketOf[c]] /\ status[TicketOf[c]] # "none"
    BY DEF Past, ZendeskPast
  <2>2. posted[c] \in Nat /\ from \in Nat /\ updated[TicketOf[c]] \in Nat
    BY <1>1, PollerAssumption DEF TypeOK, Times
  <2> QED
    BY <1>1, <2>1, <2>2 DEF TypeOK
<1>3. Fetch(from, Statuses)
  BY DEF BeginEvents
<1> QED
  BY <1>1, <1>2, <1>3, UnlistedIsLater

LEMMA NextQuiet ==
  ASSUME Inv, TypeOK, TypeOK', Past, Quiet, [Next]_vars
  PROVE  Quiet'
<1>1. FreshKnown /\ FreshKnown'
  BY FreshKnownStep DEF Quiet
<1>2. ASSUME NEW c \in fresh, ~cut', observing'[TicketOf[c]]
      PROVE  /\ c \in Comments /\ TicketOf[c] \in Tickets /\ ~cut /\ observing[TicketOf[c]]
             /\ posted'[c] = posted[c] /\ posted[c] > 0 /\ row[TicketOf[c]] # "none"
             /\ posted[c] \in Nat /\ cpEvents \in Nat /\ from \in Nat
             /\ CommentKey(c) \in events \/ posted[c] > cpEvents
  <2>1. c \in Comments /\ TicketOf[c] \in Tickets
    BY PollerAssumption DEF TypeOK
  <2>2. posted[c] \in Nat /\ cpEvents \in Nat /\ from \in Nat
    BY <2>1, PollerAssumption DEF TypeOK, Times
  <2>3. ~cut /\ observing[TicketOf[c]] /\ posted'[c] = posted[c]
    BY <1>1, <1>2, <2>1, FreshSteps
  <2>4. posted[c] > 0 /\ row[TicketOf[c]] # "none"
    BY <1>1 DEF FreshKnown
  <2>5. CommentKey(c) \in events \/ posted[c] > cpEvents
    BY <2>3 DEF Quiet, QuietCommentsAreRecorded
  <2> QED
    BY <2>1, <2>2, <2>3, <2>4, <2>5
<1>3. ASSUME NEW c \in fresh', c \notin fresh
      PROVE  posted'[c] > cpEvents' /\ pc' = "sleeping"
  <2>1. c \in Comments /\ PostComment(c) /\ pc = "sleeping" /\ cpEvents < clock
    BY <1>1, <1>3, FreshSteps
  <2>2. posted' = [posted EXCEPT ![c] = clock] /\ posted \in [Comments -> Times]
    BY <2>1 DEF PostComment, TypeOK
  <2>3. UNCHANGED <<cpEvents, pc>>
    BY <2>1 DEF PostComment, tables, cycle
  <2> QED
    BY <2>1, <2>2, <2>3
<1>4. QuietCommentsAreRecorded'
  <2> SUFFICES ASSUME NEW c \in fresh', ~cut', observing'[TicketOf[c]]
               PROVE  CommentKey(c) \in events' \/ posted'[c] > cpEvents'
    BY DEF QuietCommentsAreRecorded, CommentKey
  <2>1. CASE c \notin fresh
    BY <1>3, <2>1
  <2>2. CASE c \in fresh /\ UNCHANGED cpEvents
    BY <1>2, <2>2, EventsStored
  <2>3. CASE c \in fresh /\ Commit
    <3>1. pc = "events" /\ todo = {} /\ comments = {} /\ events' = Recorded
      BY <2>3 DEF Commit, Inv, OwnComments, Recorded
    <3>2. CommentKey(c) \in Recorded \/ OnItsWay(c)
      BY <1>2, <2>3, <3>1 DEF Quiet, QuietOnTheirWay, EventSteps
    <3> QED
      BY <3>1, <3>2 DEF OnItsWay
  <2> QED
    BY <2>1, <2>2, <2>3, CheckpointSteps
<1>5. QuietOnTheirWay'
  <2> SUFFICES ASSUME pc' \in EventSteps, NEW c \in fresh', ~cut', observing'[TicketOf[c]]
               PROVE  CommentKey(c) \in Recorded' \/ OnItsWay(c)'
    BY DEF QuietOnTheirWay, CommentKey
  <2>1. c \in fresh
    BY <1>3 DEF EventSteps
  <2>2. pc # "sleeping" /\ (posted[c] > from \/ CommentKey(c) \in events)
    <3>1. pc # "sleeping"
      <4>1. pc = "sleeping" => pc' \in {"sleeping", "open"}
        BY FromSteps DEF BeginCycle, BeginEvents, EventSteps
      <4> QED
        BY <4>1 DEF EventSteps
    <3> QED
      BY <1>1, <1>2, <2>1, <3>1 DEF FreshKnown
  <2>3. CASE CommentKey(c) \in events
    BY <2>3, EventsStored DEF Recorded
  <2>4. CASE BeginEvents /\ posted[c] > from
    <3>1. TicketOf[c] \notin hidden
      BY <2>4 DEF BeginEvents
    <3> QED
      BY <1>2, <2>1, <2>4, <3>1, ListingReaches DEF OnItsWay
  <2>5. CASE pc \in EventSteps /\ posted[c] > from
    <3>1. CommentKey(c) \in Recorded \/ OnItsWay(c)
      BY <1>2, <2>1, <2>5 DEF Quiet, QuietOnTheirWay
    <3> QED
      BY <1>2, <2>1, <2>5, <3>1, RecordedStays, OnItsWayStep
  <2>6. pc \in EventSteps \/ BeginEvents
    BY FromSteps DEF BeginCycle, EventSteps
  <2> QED
    BY <2>2, <2>3, <2>4, <2>5, <2>6
<1> QED
  BY <1>1, <1>4, <1>5 DEF Quiet

\* poller.py: where no listing ends early, a comment that is posted while the poller
\* sleeps, on an observed ticket and after the second of the checkpoint, is recorded
\* before the checkpoint passes it, however many cycles fail in between, unless
\* Zendesk did not list the ticket's last update when a cycle asked for it.
THEOREM QuietCommentsStored == Spec => []QuietCommentsAreRecorded
<1>1. Init => Quiet
  BY InitQuiet
<1>2. Inv /\ TypeOK /\ TypeOK' /\ Past /\ Quiet /\ [Next]_vars => Quiet'
  BY NextQuiet
<1>3. Quiet => QuietCommentsAreRecorded
  BY DEF Quiet
<1> QED
  BY <1>1, <1>2, <1>3, PollerInvariant, PollerTypes, ListsAreOfThePast, PTL DEF Spec

=============================================================================
