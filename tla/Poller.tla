------------------------------- MODULE Poller -------------------------------
(***************************************************************************)
(* Poller of one brand: a cycle that reads updated tickets and their       *)
(* comments from Zendesk, writes ticket rows in transactions of their own, *)
(* publishes jobs, and commits the events and the two checkpoints at its   *)
(* end.  Zendesk, the clock and the workers that write the same tables are *)
(* its environment.                                                        *)
(*                                                                         *)
(* Times are whole seconds, as utcnow() and Zendesk give them.  A status   *)
(* is "open" (NEW, OPEN), "pending" (PENDING, HOLD) or "solved" (SOLVED,   *)
(* CLOSED).  A cycle holds the poller's lock, so that there is one at a    *)
(* time.  The job queue is seen from publish(): module JobQueue has the    *)
(* rest of it.                                                             *)
(***************************************************************************)
EXTENDS Integers, FiniteSets

CONSTANTS
    Tickets, Comments,
    TicketOf,          \* the ticket of a comment
    KindOf,            \* "user": public, by a customer; "directive": private, by an
                       \* agent, with the robot tag; "other": anything else
    NoTicket,
    Backshift,         \* TICKETS_/EVENTS_SAFETY_BACKSHIFT_MIN
    LateListing,       \* Zendesk may list an update later than it makes it
    Refreshes,         \* admins use "Refresh" in the web admin
    MaxPublishAttempts,\* MAX_PUBLISH_ATTEMPTS of publish()
    MaxTime,           \* bound: the last second
    MaxFaults          \* bound: failed cycles, refused jobs, lost confirms and cut listings

Kinds == {"user", "directive", "other"}

ASSUME PollerAssumption ==
    /\ TicketOf \in [Comments -> Tickets]
    /\ KindOf \in [Comments -> Kinds]
    /\ NoTicket \notin Tickets
    /\ Backshift \in Nat
    /\ LateListing \in BOOLEAN
    /\ Refreshes \in BOOLEAN
    /\ MaxPublishAttempts \in Nat \ {0}
    /\ MaxTime \in Nat \ {0}
    /\ MaxFaults \in Nat

VARIABLES
    clock,
    status, updated,      \* of a ticket in Zendesk
    posted,               \* when a comment was posted, 0 for not yet
    hidden,               \* tickets whose last update is not listed yet
    row, observing,       \* table tickets: status ("none" for no row) and observing
    events,               \* table events: the event keys
    cpTickets, cpEvents,  \* table checkpoints, 0 for no row
    pc,                   \* where the cycle is
    todo,                 \* listed tickets that it still has to process
    cur,                  \* the listed ticket that it processes
    key,                  \* the event that it processes
    comments,             \* the comments of that ticket still to be processed
    from,                 \* updated_after of the phase
    latest,               \* lastest_seen, latest_seen
    initialIds,           \* initial_reply_ticket_ids
    tx,                   \* what its transaction has written: event keys, tickets checkpoint
    jobs,                 \* how often a job was put into the queue
    refused,              \* jobs for which publish() has answered False
    skipped,              \* comments left to the initial reply of their ticket
    read,                 \* comments that the follow-up worker has shown the model
    fresh,                \* comments posted between two cycles on an observed ticket, and
                          \* not lacking from a listing of the events
    filed,               \* comments that an admin's "Refresh" has recorded first
    missed,               \* unknown tickets that the last listing of open tickets lacked,
                          \* though updated: Zendesk did not list the update yet
    cut,                  \* a listing ended early on an HTTP error
    faults

zendesk == <<clock, status, updated, posted, hidden>>
tables == <<row, observing, events, cpTickets, cpEvents>>
cycle == <<pc, todo, cur, key, comments, from, latest, initialIds, tx>>
history == <<skipped, read, fresh, filed, missed, cut>>
vars == <<clock, status, updated, posted, hidden, row, observing, events, cpTickets,
          cpEvents, pc, todo, cur, key, comments, from, latest, initialIds, tx, jobs,
          refused, skipped, read, fresh, filed, missed, cut, faults>>

Statuses == {"open", "pending", "solved"}
Times == 0..MaxTime
Listed == [id : Tickets, status : Statuses, updated : Times]
NoListed == [id |-> NoTicket, status |-> "none", updated |-> 0]

\* Event.event_key, of a comment and of a status change.
CommentKey(c) == <<TicketOf[c], "comment", c>>
StatusKey(e) == <<e.id, "status", e.updated>>
NoKey == <<NoTicket, "none", 0>>
CommentKeys == {CommentKey(c) : c \in Comments}
EventKeys == CommentKeys \cup {<<t, "status", u>> : t \in Tickets, u \in Times}

InitialReply(t) == <<"INITIAL_REPLY", t>>
TicketClosed(t) == <<"TICKET_CLOSED", t>>
CommentJob(c) == <<"comment", c>>      \* FOLLOWUP_REPLY or AGENT_DIRECTIVE
Jobs == {InitialReply(t) : t \in Tickets} \cup {TicketClosed(t) : t \in Tickets}
        \cup {CommentJob(c) : c \in Comments}

JobsOf(t) == {InitialReply(t), TicketClosed(t)}
             \cup {CommentJob(c) : c \in {d \in Comments : TicketOf[d] = t}}

Steps == {"sleeping", "open", "initial", "events", "publish", "update", "fetch", "comments"}

TypeOK ==
    /\ clock \in Times
    /\ status \in [Tickets -> Statuses \cup {"none"}]
    /\ updated \in [Tickets -> Times]
    /\ posted \in [Comments -> Times]
    /\ hidden \subseteq Tickets
    /\ row \in [Tickets -> Statuses \cup {"none"}]
    /\ observing \in [Tickets -> BOOLEAN]
    /\ events \subseteq EventKeys
    /\ cpTickets \in Times /\ cpEvents \in Times
    /\ pc \in Steps
    /\ todo \subseteq Listed
    /\ cur \in Listed \cup {NoListed}
    /\ key \in EventKeys \cup {NoKey}
    /\ comments \subseteq Comments
    /\ from \in Times /\ latest \in Times
    /\ initialIds \subseteq Tickets
    /\ tx \in [events : SUBSET EventKeys, cpTickets : Times]
    /\ jobs \in [Jobs -> Nat]
    /\ refused \subseteq Jobs
    /\ skipped \subseteq Comments /\ read \subseteq Comments /\ fresh \subseteq Comments
    /\ filed \subseteq Comments /\ missed \subseteq Tickets
    /\ cut \in BOOLEAN
    /\ faults \in 0..MaxFaults

EmptyTx == [events |-> {}, cpTickets |-> 0]

Init ==
    /\ clock = 1
    /\ status = [t \in Tickets |-> "none"]
    /\ updated = [t \in Tickets |-> 0]
    /\ posted = [c \in Comments |-> 0]
    /\ hidden = {}
    /\ row = [t \in Tickets |-> "none"]
    /\ observing = [t \in Tickets |-> TRUE]
    /\ events = {}
    /\ cpTickets = 0 /\ cpEvents = 0
    /\ pc = "sleeping"
    /\ todo = {} /\ cur = NoListed /\ key = NoKey /\ comments = {}
    /\ from = 0 /\ latest = 0
    /\ initialIds = {}
    /\ tx = EmptyTx
    /\ jobs = [j \in Jobs |-> 0]
    /\ refused = {}
    /\ skipped = {} /\ read = {} /\ fresh = {} /\ filed = {} /\ missed = {}
    /\ cut = FALSE
    /\ faults = 0

----------------------------------------------------------------------------
\* Zendesk: customers and agents work on tickets.

Touch(t, s) ==
    /\ status' = [status EXCEPT ![t] = s]
    /\ updated' = [updated EXCEPT ![t] = clock]
    /\ IF LateListing THEN hidden' \in {hidden \ {t}, hidden \cup {t}} ELSE UNCHANGED hidden
    /\ missed' = missed \ {t}

Tick ==
    /\ clock < MaxTime
    /\ clock' = clock + 1
    /\ UNCHANGED <<status, updated, posted, hidden, tables, cycle, jobs, refused, history, faults>>

\* A customer opens a ticket: its description is its first comment.
CreateTicket(c) ==
    /\ status[TicketOf[c]] = "none"
    /\ KindOf[c] = "user"
    /\ Touch(TicketOf[c], "open")
    /\ posted' = [posted EXCEPT ![c] = clock]
    /\ UNCHANGED <<clock, tables, cycle, jobs, refused, skipped, read, fresh, filed, cut, faults>>

\* A comment on an existing ticket; one of the customer's opens the ticket again.
PostComment(c) ==
    LET t == TicketOf[c] IN
    /\ status[t] # "none"
    /\ posted[c] = 0
    /\ Touch(t, IF KindOf[c] = "user" THEN "open" ELSE status[t])
    /\ posted' = [posted EXCEPT ![c] = clock]
    /\ fresh' = IF pc = "sleeping" /\ row[t] # "none" /\ 0 < cpEvents /\ cpEvents < clock
                THEN fresh \cup {c} ELSE fresh
    /\ UNCHANGED <<clock, tables, cycle, jobs, refused, skipped, read, filed, cut, faults>>

\* An agent changes the status.  No ticket changes its status twice in a second.
SetStatus(t, s) ==
    /\ status[t] \notin {"none", s}
    /\ updated[t] < clock
    /\ Touch(t, s)
    /\ UNCHANGED <<clock, posted, tables, cycle, jobs, refused, skipped, read, fresh, filed, cut, faults>>

\* The last update of a ticket reaches the incremental export.
Appears(t) ==
    /\ t \in hidden
    /\ hidden' = hidden \ {t}
    /\ UNCHANGED <<clock, status, updated, posted, tables, cycle, jobs, refused, history, faults>>

\* iter_updated_tickets: tickets of these statuses, updated at or after a time,
\* in the order of their update; the pages that come before an HTTP error.
ListedStrictly(t, after) == updated[t] > after
ListedSince(t, after) == updated[t] >= after
Listing(after, statuses) ==
    {[id |-> t, status |-> status[t], updated |-> updated[t]] :
        t \in {u \in Tickets : status[u] \in statuses /\ u \notin hidden /\ ListedSince(u, after)}}
Prefix(part, whole) ==
    /\ part \subseteq whole
    /\ \A e \in part, f \in whole \ part : e.updated <= f.updated
Fetch(after, statuses) ==
    \/ todo' = Listing(after, statuses) /\ UNCHANGED <<cut, faults>>
    \/ /\ faults < MaxFaults
       /\ faults' = faults + 1
       /\ cut' = TRUE
       /\ \E part \in SUBSET Listing(after, statuses) :
            part # Listing(after, statuses) /\ Prefix(part, Listing(after, statuses)) /\ todo' = part

Oldest == {e \in todo : \A f \in todo : e.updated <= f.updated}
Later(a, b) == IF a < b THEN b ELSE a

----------------------------------------------------------------------------
\* TicketsRepository.upsert_ticket_and_check_new, in a transaction of its own:
\* observing stays FALSE once it is.
UpsertObserves(t, s, observe) ==
    /\ row' = [row EXCEPT ![t] = s]
    /\ observing' = [observing EXCEPT ![t] = observe]
UpsertUpdates(t, s, observe) ==
    /\ row' = [row EXCEPT ![t] = IF @ = "none" THEN @ ELSE s]
    /\ observing' = [observing EXCEPT ![t] = @ /\ observe]
Upsert(t, s, observe) ==
    /\ row' = [row EXCEPT ![t] = s]
    /\ observing' = [observing EXCEPT ![t] = @ /\ observe]

\* publish(): an attempt whose confirm is lost has put the job into the queue, and
\* the loop sends it again.  An attempt that is confirmed ends it with True; when
\* the last one fails the answer is False.  (CycleFails is an exception.)
PublishJob(j) ==
    \E lost \in 0..MaxPublishAttempts :
        /\ \/ /\ lost < MaxPublishAttempts
              /\ jobs' = [jobs EXCEPT ![j] = @ + lost + 1]
              /\ faults' = faults + lost
              /\ UNCHANGED refused
           \/ /\ jobs' = [jobs EXCEPT ![j] = @ + lost]
              /\ faults' = faults + Later(1, lost)
              /\ refused' = refused \cup {j}
        /\ faults' <= MaxFaults

\* _get_new_checkpoint; _bootstrap_if_needed writes it when there is none.
NewCheckpointAhead == clock + Backshift
NewCheckpoint == IF clock > Backshift THEN clock - Backshift ELSE 0
Checkpoint(saved) == IF saved = 0 THEN NewCheckpoint ELSE saved

\* TicketStatus.active(), which _process_open_tickets asks for.
Active == {"open"}

\* _run_polling_cycle begins the transaction, and _process_open_tickets its loop.
BeginCycle ==
    /\ pc = "sleeping"
    /\ pc' = "open"
    /\ latest' = Checkpoint(cpTickets)
    /\ from' = Checkpoint(cpEvents)
    /\ Fetch(Checkpoint(cpTickets), Active)
    /\ missed' = {t \in hidden : row[t] = "none"}
    /\ initialIds' = {}
    /\ tx' = EmptyTx
    /\ UNCHANGED <<zendesk, tables, cur, key, comments, jobs, refused, skipped, read, fresh, filed>>

\* _process_open_tickets, to the end of an iteration or to its publish().
LatestFromClock(time) == clock
LatestSeen(time) == Later(latest, time)
ChangedStatus(e) == row[e.id] # e.status
IsNew(e) == row[e.id] = "none"
OpenTicket(e) ==
    /\ pc = "open"
    /\ e \in Oldest
    /\ Upsert(e.id, e.status, TRUE)
    /\ todo' = todo \ {e}
    /\ latest' = LatestSeen(e.updated)
    /\ IF IsNew(e)
       THEN pc' = "initial" /\ initialIds' = initialIds \cup {e.id} /\ cur' = e
       ELSE UNCHANGED <<pc, initialIds, cur>>
    /\ UNCHANGED <<zendesk, events, cpTickets, cpEvents, key, comments, from, tx, jobs,
                   refused, history, faults>>

PublishInitial ==
    /\ pc = "initial"
    /\ PublishJob(InitialReply(cur.id))
    /\ pc' = "open"
    /\ cur' = NoListed
    /\ UNCHANGED <<zendesk, tables, todo, key, comments, from, latest, initialIds, tx, history>>

\* set_checkpoint of the tickets, and the listing of _iter_events.
BeginEvents ==
    /\ pc = "open"
    /\ todo = {}
    /\ pc' = "events"
    /\ tx' = [tx EXCEPT !.cpTickets = latest]
    /\ latest' = from
    /\ Fetch(from, Statuses)
    /\ fresh' = {c \in fresh : TicketOf[c] \notin hidden}
    /\ UNCHANGED <<zendesk, tables, cur, key, comments, from, initialIds, jobs, refused, skipped,
                   read, filed, missed>>

----------------------------------------------------------------------------
\* _iter_events skips a ticket that it does not know, and only writes the row of
\* one that is not observed.
SkipUnknownUpserts(e) ==
    /\ pc = "events"
    /\ e \in Oldest
    /\ row[e.id] = "none"
    /\ Upsert(e.id, e.status, TRUE)
    /\ todo' = todo \ {e}
    /\ UNCHANGED <<zendesk, events, cpTickets, cpEvents, pc, cur, key, comments, from, latest,
                   initialIds, tx, jobs, refused, history, faults>>
SkipUnknown(e) ==
    /\ pc = "events"
    /\ e \in Oldest
    /\ row[e.id] = "none"
    /\ todo' = todo \ {e}
    /\ UNCHANGED <<zendesk, tables, pc, cur, key, comments, from, latest, initialIds, tx,
                   jobs, refused, history, faults>>

SkipUnobserved(e) ==
    /\ pc = "events"
    /\ e \in Oldest
    /\ row[e.id] # "none"
    /\ ~observing[e.id]
    /\ Upsert(e.id, e.status, TRUE)
    /\ todo' = todo \ {e}
    /\ UNCHANGED <<zendesk, events, cpTickets, cpEvents, pc, cur, key, comments, from, latest,
                   initialIds, tx, jobs, refused, history, faults>>

\* insert_event: a key that is there, committed or written by this transaction,
\* inserts nothing, and then no job is published.
InsertEvent(k, wantsJob) ==
    LET inserted == k \notin events \cup tx.events IN
    /\ key' = k
    /\ tx' = IF inserted THEN [tx EXCEPT !.events = @ \cup {k}] ELSE tx
    /\ pc' = IF inserted /\ wantsJob THEN "publish" ELSE "update"

\* _create_status_event when the listed status differs from the row's.
StatusEvent(e) ==
    /\ pc = "events"
    /\ e \in Oldest
    /\ row[e.id] \notin {"none", e.status}
    /\ observing[e.id]
    /\ todo' = todo \ {e}
    /\ cur' = e
    /\ InsertEvent(StatusKey(e), e.status = "solved")
    /\ UNCHANGED <<zendesk, tables, comments, from, latest, initialIds, jobs, refused, history, faults>>

\* NoStatusChange: on to the comments of the ticket.
SameStatus(e) == "fetch"
NoStatusChange(e) ==
    /\ pc = "events"
    /\ e \in Oldest
    /\ row[e.id] = e.status
    /\ observing[e.id]
    /\ todo' = todo \ {e}
    /\ cur' = e
    /\ pc' = SameStatus(e)
    /\ UNCHANGED <<zendesk, tables, key, comments, from, latest, initialIds, tx, jobs,
                   refused, history, faults>>

\* get_ticket_comments, as the ticket is now, and the filter on created_at.
FetchComments ==
    /\ pc = "fetch"
    /\ comments' = {c \in Comments : TicketOf[c] = cur.id /\ posted[c] > from}
    /\ pc' = "comments"
    /\ UNCHANGED <<zendesk, tables, todo, cur, key, from, latest, initialIds, tx, jobs,
                   refused, history, faults>>

\* _should_skip_initial_followup and _create_comment_job.
SkipsFollowUp(c) == TicketOf[c] \in initialIds /\ KindOf[c] = "user"
WantsJob(c) == ~SkipsFollowUp(c) /\ KindOf[c] \in {"user", "directive"}

NextComment(c) ==
    /\ pc = "comments"
    /\ c \in comments
    /\ \A d \in comments : posted[c] <= posted[d]
    /\ comments' = comments \ {c}
    /\ InsertEvent(CommentKey(c), WantsJob(c))
    /\ skipped' = IF CommentKey(c) \in tx'.events \ tx.events /\ SkipsFollowUp(c)
                  THEN skipped \cup {c} ELSE skipped
    /\ UNCHANGED <<zendesk, tables, todo, cur, from, latest, initialIds, jobs, refused, read,
                   fresh, filed, missed, cut, faults>>

EndComments ==
    /\ pc = "comments"
    /\ comments = {}
    /\ pc' = "events"
    /\ cur' = NoListed
    /\ UNCHANGED <<zendesk, tables, todo, key, comments, from, latest, initialIds, tx, jobs,
                   refused, history, faults>>

IsStatus(k) == k[2] = "status"
TimeOf(k) == IF IsStatus(k) THEN k[3] ELSE posted[k[3]]
JobOf(k) == IF IsStatus(k) THEN TicketClosed(k[1]) ELSE CommentJob(k[3])

PublishEvent ==
    /\ pc = "publish"
    /\ PublishJob(JobOf(key))
    /\ pc' = "update"
    /\ UNCHANGED <<zendesk, tables, todo, cur, key, comments, from, latest, initialIds, tx, history>>

\* _update_db_ticket, and on to the next event.
UpdateRow ==
    /\ pc = "update"
    /\ Upsert(cur.id, cur.status, TRUE)
    /\ latest' = Later(latest, TimeOf(key))
    /\ pc' = IF IsStatus(key) THEN "fetch" ELSE "comments"
    /\ UNCHANGED <<zendesk, events, cpTickets, cpEvents, todo, cur, key, comments, from,
                   initialIds, tx, jobs, refused, history, faults>>

----------------------------------------------------------------------------
Sleep ==
    /\ pc' = "sleeping"
    /\ todo' = {} /\ cur' = NoListed /\ key' = NoKey /\ comments' = {}
    /\ from' = 0 /\ latest' = 0
    /\ initialIds' = {}
    /\ tx' = EmptyTx

\* set_checkpoint of the events, and the commit.
Commit ==
    /\ pc = "events"
    /\ todo = {}
    /\ events' = events \cup tx.events
    /\ cpTickets' = tx.cpTickets
    /\ cpEvents' = latest
    /\ Sleep
    /\ UNCHANGED <<zendesk, row, observing, jobs, refused, history, faults>>

\* What is left of the transaction of a cycle that does not reach its end.
EventsStay == events' = events \cup tx.events /\ UNCHANGED <<cpTickets, cpEvents>>
CheckpointStays ==
    /\ cpEvents' = IF pc \in {"open", "initial"} THEN cpEvents ELSE latest
    /\ UNCHANGED <<events, cpTickets>>
Rollback == UNCHANGED <<events, cpTickets, cpEvents>>

\* Any exception, a commit that fails, or the death of the process.
CycleFails ==
    /\ pc # "sleeping"
    /\ faults < MaxFaults
    /\ faults' = faults + 1
    /\ Rollback
    /\ Sleep
    /\ UNCHANGED <<zendesk, row, observing, jobs, refused, history>>

----------------------------------------------------------------------------
\* The workers that write the poller's tables.

\* TicketClosedWorker: set_observing(FALSE).
CloseTicket(t) ==
    /\ jobs[TicketClosed(t)] > 0
    /\ observing[t]
    /\ observing' = [observing EXCEPT ![t] = FALSE]
    /\ UNCHANGED <<zendesk, row, events, cpTickets, cpEvents, cycle, jobs, refused, history, faults>>

\* InitialReplyWorker finds a service ticket: _mark_unobserved writes the status
\* of the ticket in its message, which was NEW or OPEN, and observing FALSE.
FilterTicket(t) ==
    /\ jobs[InitialReply(t)] > 0
    /\ observing[t]
    /\ Upsert(t, "open", FALSE)
    /\ UNCHANGED <<zendesk, events, cpTickets, cpEvents, cycle, jobs, refused, history, faults>>

\* FollowUpReplyWorker reads the whole conversation and stores it: _store_comments
\* waits for the poller's transaction when both insert the same comment.
StoreConversation(c) ==
    LET t == TicketOf[c]
        conversation == {d \in Comments : TicketOf[d] = t /\ posted[d] > 0}
        keys == {CommentKey(d) : d \in conversation}
    IN
    /\ KindOf[c] = "user"
    /\ jobs[CommentJob(c)] > 0
    /\ observing[t]
    /\ CommentKey(c) \in events
    /\ keys \cap tx.events = {}
    /\ events' = events \cup keys
    /\ read' = read \cup conversation
    /\ UNCHANGED <<zendesk, row, observing, cpTickets, cpEvents, cycle, jobs, refused, skipped, fresh, filed, missed, cut, faults>>

\* refresh_ticket_comments of the web admin: it files what it has read up to some
\* time as events of the ticket, and publishes nothing.
RefreshComments(t, time) ==
    LET conversation == {c \in Comments : TicketOf[c] = t /\ posted[c] \in 1..time}
        keys == {CommentKey(c) : c \in conversation}
    IN
    /\ Refreshes
    /\ row[t] # "none"
    /\ keys \cap tx.events = {}
    /\ events' = events \cup keys
    /\ filed' = filed \cup {c \in conversation : CommentKey(c) \notin events}
    /\ UNCHANGED <<zendesk, row, observing, cpTickets, cpEvents, cycle, jobs, refused, skipped,
                   read, fresh, missed, cut, faults>>

OpenPhase == (\E e \in todo : OpenTicket(e)) \/ PublishInitial \/ BeginEvents
EventPhase ==
    \/ \E e \in todo : SkipUnknown(e) \/ SkipUnobserved(e) \/ StatusEvent(e) \/ NoStatusChange(e)
    \/ FetchComments \/ EndComments \/ PublishEvent \/ UpdateRow
    \/ \E c \in Comments : NextComment(c)
Poll == BeginCycle \/ OpenPhase \/ EventPhase \/ Commit

Zendesk ==
    \/ \E c \in Comments : CreateTicket(c) \/ PostComment(c)
    \/ \E t \in Tickets : (\E s \in Statuses : SetStatus(t, s)) \/ Appears(t)

Workers ==
    \/ \E t \in Tickets : CloseTicket(t) \/ FilterTicket(t)
    \/ \E c \in Comments : StoreConversation(c)
    \/ \E t \in Tickets, time \in 1..clock : RefreshComments(t, time)

Next == Tick \/ Zendesk \/ Poll \/ CycleFails \/ Workers

Spec == Init /\ [][Next]_vars

\* The loop of run() goes on: sleep, lock, cycle.
FairSpec == Spec /\ WF_vars(Poll)

----------------------------------------------------------------------------
\* _upsert_ticket: the row of a ticket is committed before a job of the ticket is
\* published, so that no worker meets a missing foreign key; also when the cycle
\* that published the job is rolled back.
JobsFollowRows ==
    \A t \in Tickets, j \in Jobs : j \in JobsOf(t) /\ jobs[j] > 0 => row[t] # "none"

\* upsert_ticket_and_check_new: "This method never change observing from False
\* to True", whoever calls it and in whatever order.
ObservingNeverRestored ==
    [][\A t \in Tickets : ~observing[t] => ~observing'[t]]_vars

\* However often cycles fail and start again from the old checkpoint, publish() is
\* called once for the INITIAL_REPLY of a ticket: is_new is decided in a transaction
\* that no failure of the cycle rolls back.  The queue holds what one call leaves
\* there, more than one copy only for confirms that were lost.
OneInitialReply ==
    \A t \in Tickets :
        jobs[InitialReply(t)] <= MaxPublishAttempts /\ jobs[InitialReply(t)] <= 1 + faults

AheadOfCheckpoint(t) ==
    cpTickets # 0 /\ row[t] = "none" /\ status[t] = "open" /\ updated[t] >= cpTickets

\* lastest_seen and the rows are written in different transactions, and a listing may
\* end early: still the tickets checkpoint never moves past the last update of an
\* active ticket that has no row, unless Zendesk did not list that update when the
\* cycle asked for it.
NoTicketLeftBehind ==
    [][\A t \in Tickets :
        AheadOfCheckpoint(t) /\ row'[t] = "none" => updated'[t] >= cpTickets' \/ t \in missed']_vars

\* poller.py: the checkpoint steps back because (in its comment's words, translated)
\* "the server may not return a created ticket within the polling delay of 90
\* seconds, and so it gets lost".  So the tickets checkpoint never moves past the
\* last update of an active ticket that has no row, listed late or not.
LateTicketsAreNotLost ==
    [][\A t \in Tickets : AheadOfCheckpoint(t) /\ row'[t] = "none" => updated'[t] >= cpTickets']_vars

Asked(j) == jobs[j] > 0 \/ j \in refused

\* What _process_events records it also works on: a customer's comment in the
\* events table has its job in the queue, or publish() refused the job, or the
\* follow-up worker has shown it to the model, or the initial reply was asked for;
\* or an admin's "Refresh" got there first.
RecordedCommentsAreWorkedOn ==
    \A c \in Comments :
        KindOf[c] = "user" /\ CommentKey(c) \in events =>
            \/ jobs[CommentJob(c)] > 0
            \/ c \in read \cup filed
            \/ CommentJob(c) \in refused
            \/ c \in skipped /\ Asked(InitialReply(TicketOf[c]))

\* README.md: "Failures follow retry/dead-letter behavior rather than being silently
\* dropped."  A customer's comment on an observed ticket that the checkpoint has
\* passed has its job, or was refused one, or has been shown to the model.
FreshCommentsAreWorkedOn ==
    pc = "sleeping" =>
        \A c \in fresh :
            posted[c] < cpEvents /\ KindOf[c] = "user" /\ CommentKey(c) \in events =>
                Asked(CommentJob(c)) \/ c \in read

\* The status in the row is what the next cycle compares with: once it says
\* "solved" of an observed ticket, TICKET_CLOSED has been published, or refused.
SolvedRowsWereReported ==
    \A t \in Tickets :
        row[t] = "solved" /\ observing[t] =>
            Asked(TicketClosed(t))

\* What the tables say was seen was handled: nothing that the next cycle will not
\* look at again, an event or the status of a row, is without its job.
StoredMeansHandled == RecordedCommentsAreWorkedOn /\ SolvedRowsWereReported

\* A comment posted between two cycles, after the second of the checkpoint, on an
\* observed ticket is recorded before the checkpoint passes it, if no listing
\* ended early and none lacked the ticket's last update: only what races with a
\* running cycle, or what Zendesk lists late, can be passed over.
QuietCommentsAreRecorded ==
    \A c \in fresh :
        ~cut /\ observing[TicketOf[c]] =>
            CommentKey(c) \in events \/ posted[c] > cpEvents

\* A ticket that is known and has no initial reply job has a fault to blame: a
\* refused job, or a failure between its row and its job.
MissingInitialReplyNeedsFault ==
    pc = "sleeping" =>
        Cardinality({t \in Tickets : row[t] # "none" /\ jobs[InitialReply(t)] = 0}) <= faults

\* An active ticket whose last update is at or after the checkpoint gets its row, or
\* stops being active, or was not listed when the cycle asked for it.
ActiveTicketsBecomeKnown ==
    \A t \in Tickets :
        AheadOfCheckpoint(t) ~> row[t] # "none" \/ status[t] # "open" \/ t \in missed

\* README.md: "Ticket changes are converted into typed jobs."  The events
\* checkpoint never passes a customer's comment that is not recorded, on a ticket
\* observed all the while.
NoCommentPassedOver ==
    [][\A c \in Comments :
        LET t == TicketOf[c] IN
        /\ KindOf[c] = "user" /\ row[t] # "none" /\ observing[t] /\ cpEvents # 0
        /\ posted[c] > cpEvents /\ CommentKey(c) \notin events'
        => posted[c] > cpEvents']_vars
=============================================================================
