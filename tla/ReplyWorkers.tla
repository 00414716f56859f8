---------------------------- MODULE ReplyWorkers ----------------------------
(***************************************************************************)
(* InitialReplyWorker and FollowUpReplyWorker on one ticket, and the       *)
(* ReplyPostingService they share.  A handler runs in one transaction,     *)
(* from its first read to the answer it gives the queue, and calls Zendesk *)
(* in the middle of it: what Zendesk has done is not undone when the       *)
(* transaction is rolled back.                                             *)
(*                                                                         *)
(* The poller has a transaction of its own.  An insert waits for a row     *)
(* that another transaction has inserted and not committed: the one step   *)
(* that the waiting transaction has is disabled until the other one ends.  *)
(* The queue is seen as what module JobDelivery promises: a job is         *)
(* delivered until its handler answers True or has answered False too      *)
(* often, and again after a crash.                                         *)
(***************************************************************************)
EXTENDS Integers, FiniteSets

CONSTANTS
    Initial,       \* the INITIAL_REPLY job
    Comments,      \* ids of the later comments of the ticket
    FollowUps,     \* those of the customer; also their FOLLOWUP_REPLY jobs
    Bodies,        \* texts that the model may write
    NoBody, NoJob,
    Retries,       \* len(RETRY_DELAYS)
    MaxTime,       \* bound: the last second
    MaxFaults      \* bound: crashes, lost answers, redeliveries, rollbacks of the poller

ASSUME ReplyWorkersAssumption ==
    /\ Comments \subseteq Nat \ {0}
    /\ FollowUps \subseteq Comments
    /\ Initial \notin FollowUps
    /\ NoBody \notin Bodies
    /\ NoJob \notin FollowUps \cup {Initial}
    /\ Retries \in Nat
    /\ MaxTime \in Nat \ {0}
    /\ MaxFaults \in Nat
    /\ IsFiniteSet(Bodies) /\ IsFiniteSet(Comments)

VARIABLES
    clock,
    asked,        \* when a comment was posted, 0 for not yet
    shown,        \* comments that Zendesk shows, by the job that posted them and body
    firstShown,   \* when Zendesk showed our first comment, 0 for not yet
    stored,       \* comments whose event is committed
    recording,    \* comments whose event the poller has inserted and not committed
    inserting,    \* the comment at whose insert the poller is, 0 for none
    observing,    \* tickets.observing
    ourPosts,     \* our_posts.created_at by body, 0 for no row
    attempts,     \* rows of ticket_reply_attempts for a text that the customer is to
                  \* have got, by job, status and body; the rows of empty and failed
                  \* replies, which no handler reads, are left out
    queue,        \* the state of a job
    tries,        \* failed handler runs of a job
    pc,           \* where the handler of a worker is
    doing,        \* its job
    channel,      \* the review_channel it has read, "on" for "internal" and "public"
    todo,         \* comments of the conversation that it has read and not yet stored
    text,         \* what the model has written, to be recorded
    body,         \* the body that it has recorded
    at,           \* created_at of the our_posts row that it has inserted
    events,       \* event rows that it has inserted
    dismissed,    \* follow-ups answered with SKIP
    faults

ticket == <<clock, asked, stored, recording, inserting, observing>>
zendesk == <<shown, firstShown>>
handlers == <<pc, doing, channel, todo, text, body, at, events>>
vars == <<clock, asked, shown, firstShown, stored, recording, inserting, observing, ourPosts,
          attempts, queue, tries, pc, doing, channel, todo, text, body, at, events, dismissed,
          faults>>

Jobs == FollowUps \cup {Initial}
Workers == {"initial_reply", "followup_reply"}
WorkerOf(j) == IF j = Initial THEN "initial_reply" ELSE "followup_reply"
Channels == {"on", "off"}
Places == {"idle", "reading", "generating", "hung", "saving", "posting", "posted"}
Outcomes == {"posted", "skipped_duplicate"}

TypeOK ==
    /\ clock \in 1..MaxTime
    /\ asked \in [Comments -> 0..MaxTime]
    /\ shown \in [Jobs \X Bodies -> Nat]
    /\ firstShown \in 0..MaxTime
    /\ stored \subseteq Comments /\ recording \subseteq Comments
    /\ inserting \in Comments \cup {0}
    /\ observing \in BOOLEAN
    /\ ourPosts \in [Bodies -> 0..MaxTime]
    /\ attempts \in [Jobs \X Outcomes \X Bodies -> Nat]
    /\ queue \in [Jobs -> {"none", "pending", "done", "dead"}]
    /\ tries \in [Jobs -> 0..(Retries + 1)]
    /\ pc \in [Workers -> Places]
    /\ doing \in [Workers -> Jobs \cup {NoJob}]
    /\ channel \in [Workers -> Channels]
    /\ todo \in [Workers -> SUBSET Comments]
    /\ text \in [Workers -> Bodies \cup {NoBody}]
    /\ body \in [Workers -> Bodies \cup {NoBody}]
    /\ at \in [Workers -> 0..MaxTime]
    /\ events \in [Workers -> SUBSET Comments]
    /\ dismissed \subseteq FollowUps
    /\ faults \in 0..MaxFaults

Init ==
    /\ clock = 1
    /\ asked = [c \in Comments |-> 0]
    /\ shown = [p \in Jobs \X Bodies |-> 0]
    /\ firstShown = 0
    /\ stored = {} /\ recording = {} /\ inserting = 0
    /\ observing = TRUE
    /\ ourPosts = [b \in Bodies |-> 0]
    /\ attempts = [a \in Jobs \X Outcomes \X Bodies |-> 0]
    /\ queue = [j \in Jobs |-> IF j = Initial THEN "pending" ELSE "none"]
    /\ tries = [j \in Jobs |-> 0]
    /\ pc = [w \in Workers |-> "idle"]
    /\ doing = [w \in Workers |-> NoJob]
    /\ channel = [w \in Workers |-> "off"]
    /\ todo = [w \in Workers |-> {}]
    /\ text = [w \in Workers |-> NoBody]
    /\ body = [w \in Workers |-> NoBody]
    /\ at = [w \in Workers |-> 0]
    /\ events = [w \in Workers |-> {}]
    /\ dismissed = {}
    /\ faults = 0

----------------------------------------------------------------------------
\* The environment: time, the customer and the agents, the poller, the queue.

Tick ==
    /\ clock < MaxTime
    /\ clock' = clock + 1
    /\ UNCHANGED <<asked, stored, recording, inserting, observing, zendesk, ourPosts, attempts,
                   queue, tries, handlers, dismissed, faults>>

\* Zendesk numbers the comments as they come.
CommentIsPosted(c) ==
    /\ asked[c] = 0
    /\ \A d \in Comments : d < c => asked[d] > 0
    /\ asked' = [asked EXCEPT ![c] = clock]
    /\ UNCHANGED <<clock, stored, recording, inserting, observing, zendesk, ourPosts, attempts,
                   queue, tries, handlers, dismissed, faults>>

\* The poller goes through the listing, in the order of its comments.
PollerReaches(c) ==
    /\ inserting = 0
    /\ observing
    /\ asked[c] > 0
    /\ c \notin stored \cup recording
    /\ \A d \in Comments : d < c => d \in stored \cup recording
    /\ inserting' = c
    /\ UNCHANGED <<clock, asked, stored, recording, observing, zendesk, ourPosts, attempts,
                   queue, tries, handlers, dismissed, faults>>

\* insert_event, and the publish of the job when the event is new and the customer's.
\* The insert waits for a worker that has inserted the event and not committed.
HeldByWorker(c) == \E w \in Workers : c \in events[w]
PollerInserts(c) ==
    /\ inserting = c
    /\ ~HeldByWorker(c)
    /\ inserting' = 0
    /\ recording' = recording \cup ({c} \ stored)
    /\ IF c \in FollowUps \ stored
       THEN /\ queue' = [queue EXCEPT ![c] = "pending"]
            /\ tries' = [tries EXCEPT ![c] = 0]
       ELSE UNCHANGED <<queue, tries>>
    /\ UNCHANGED <<clock, asked, stored, observing, zendesk, ourPosts, attempts,
                   handlers, dismissed, faults>>

PollerCommits ==
    /\ inserting = 0
    /\ recording # {}
    /\ recording' = {}
    /\ stored' = stored \cup recording
    /\ UNCHANGED <<clock, asked, inserting, observing, zendesk, ourPosts, attempts,
                   queue, tries, handlers, dismissed, faults>>

PollerRollsBack ==
    /\ recording # {} \/ inserting # 0
    /\ faults < MaxFaults
    /\ faults' = faults + 1
    /\ recording' = {}
    /\ inserting' = 0
    /\ UNCHANGED <<clock, asked, stored, observing, zendesk, ourPosts, attempts,
                   queue, tries, handlers, dismissed>>

\* TicketClosedWorker.
TicketCloses ==
    /\ observing
    /\ observing' = FALSE
    /\ UNCHANGED <<clock, asked, stored, recording, inserting, zendesk, ourPosts, attempts,
                   queue, tries, handlers, dismissed, faults>>

\* A job whose answer was given is delivered once more.
Redeliver(j) ==
    /\ queue[j] = "done"
    /\ faults < MaxFaults
    /\ faults' = faults + 1
    /\ queue' = [queue EXCEPT ![j] = "pending"]
    /\ UNCHANGED <<ticket, zendesk, ourPosts, attempts, tries, handlers, dismissed>>

----------------------------------------------------------------------------
\* The answers of a handler to the queue.

AnswersTrue(j) ==
    /\ queue' = [queue EXCEPT ![j] = "done"]
    /\ UNCHANGED tries

AnswersFalseLate(j) ==
    /\ tries' = [tries EXCEPT ![j] = @ + 1]
    /\ queue' = [queue EXCEPT ![j] = IF tries[j] > Retries THEN "dead" ELSE "pending"]
AnswersFalse(j) ==
    /\ tries' = [tries EXCEPT ![j] = @ + 1]
    /\ queue' = [queue EXCEPT ![j] = IF tries[j] >= Retries THEN "dead" ELSE "pending"]

Delivered(w, j) == pc[w] = "idle" /\ queue[j] = "pending" /\ WorkerOf(j) = w

\* get_channel() comes before the text is generated; an admin may have set either.
Begin(w, j, place) ==
    /\ pc' = [pc EXCEPT ![w] = place]
    /\ doing' = [doing EXCEPT ![w] = j]
    /\ \E read \in Channels : channel' = [channel EXCEPT ![w] = read]
    /\ UNCHANGED <<todo, text, body, at, events>>

\* The end of a transaction gives up the key that it has inserted (a session left open
\* would keep it).
KeepsKey(w) == UNCHANGED body
ReleasesKey(w) == body' = [body EXCEPT ![w] = NoBody]

\* The transaction of worker w ends.
End(w) ==
    /\ pc' = [pc EXCEPT ![w] = "idle"]
    /\ doing' = [doing EXCEPT ![w] = NoJob]
    /\ channel' = [channel EXCEPT ![w] = "off"]
    /\ todo' = [todo EXCEPT ![w] = {}]
    /\ text' = [text EXCEPT ![w] = NoBody]
    /\ ReleasesKey(w)
    /\ at' = [at EXCEPT ![w] = 0]
    /\ events' = [events EXCEPT ![w] = {}]

\* InitialReplyWorker._handler: a service ticket is marked unobserved.
FilterAsService ==
    /\ Delivered("initial_reply", Initial)
    /\ observing' = FALSE
    /\ AnswersTrue(Initial)
    /\ UNCHANGED <<clock, asked, stored, recording, inserting, zendesk, ourPosts, attempts,
                   handlers, dismissed, faults>>

BeginInitial ==
    /\ Delivered("initial_reply", Initial)
    /\ Begin("initial_reply", Initial, "generating")
    /\ UNCHANGED <<ticket, zendesk, ourPosts, attempts, queue, tries, dismissed, faults>>

\* FollowUpReplyWorker._handler and _should_process_followup.
ExistsBefore(c) == \E b \in Bodies : 0 < ourPosts[b] /\ ourPosts[b] < asked[c]

NotObserving(c) ==
    /\ Delivered("followup_reply", c)
    /\ ~observing
    /\ AnswersTrue(c)
    /\ UNCHANGED <<ticket, zendesk, ourPosts, attempts, handlers, dismissed, faults>>

RetryFollowUp(c) ==
    /\ Delivered("followup_reply", c)
    /\ observing
    /\ c \notin stored
    /\ AnswersFalse(c)
    /\ UNCHANGED <<ticket, zendesk, ourPosts, attempts, handlers, dismissed, faults>>

SkipFollowUp(c) ==
    /\ Delivered("followup_reply", c)
    /\ observing
    /\ c \in stored
    /\ ~ExistsBefore(c)
    /\ AnswersTrue(c)
    /\ dismissed' = dismissed \cup {c}
    /\ UNCHANGED <<ticket, zendesk, ourPosts, attempts, handlers, faults>>

BeginFollowUp(c) ==
    /\ Delivered("followup_reply", c)
    /\ observing
    /\ c \in stored
    /\ ExistsBefore(c)
    /\ Begin("followup_reply", c, "reading")
    /\ UNCHANGED <<ticket, zendesk, ourPosts, attempts, queue, tries, dismissed, faults>>

\* get_ticket_comments answers with the conversation.
ReadConversation(w) ==
    /\ pc[w] = "reading"
    /\ pc' = [pc EXCEPT ![w] = "generating"]
    /\ todo' = [todo EXCEPT ![w] = {c \in Comments : asked[c] > 0}]
    /\ UNCHANGED <<ticket, zendesk, ourPosts, attempts, queue, tries, doing, channel, text, body,
                   at, events, dismissed, faults>>

\* _store_comments inserts the events, in the order of the comments.  An insert does
\* nothing when the row is there, and waits for the poller that has it uncommitted.
ComesFirst(c, S) == \A d \in S : c <= d
StoreComment(w) ==
    /\ pc[w] = "generating"
    /\ \E c \in todo[w] :
        /\ ComesFirst(c, todo[w])
        /\ c \notin recording
        /\ todo' = [todo EXCEPT ![w] = @ \ {c}]
        /\ events' = [events EXCEPT ![w] = @ \cup ({c} \ stored)]
    /\ UNCHANGED <<ticket, zendesk, ourPosts, attempts, queue, tries, pc, doing, channel, text,
                   body, at, dismissed, faults>>

\* The model has the conversation.
Asking(w) == pc[w] = "generating" /\ todo[w] = {}

\* It writes a text.
Generate(w, b) ==
    /\ Asking(w)
    /\ text' = [text EXCEPT ![w] = b]
    /\ pc' = [pc EXCEPT ![w] = "saving"]
    /\ UNCHANGED <<ticket, zendesk, ourPosts, attempts, queue, tries, doing, channel, todo, body,
                   at, events, dismissed, faults>>

\* It does not answer: nothing limits the time of the call, be it for the text or
\* for the classification.
LLMHangs(w) ==
    /\ Asking(w)
    /\ pc' = [pc EXCEPT ![w] = "hung"]
    /\ UNCHANGED <<ticket, zendesk, ourPosts, attempts, queue, tries, doing, channel, todo, text,
                   body, at, events, dismissed, faults>>

\* post_reply with an empty text: the model wrote none, or it failed, or the conversation
\* could not be read.
EmptyReply(w) ==
    /\ pc[w] = "reading" \/ Asking(w)
    /\ stored' = stored \cup events[w]
    /\ AnswersFalse(doing[w])
    /\ End(w)
    /\ UNCHANGED <<clock, asked, recording, inserting, observing, zendesk, ourPosts, attempts,
                   dismissed, faults>>

\* record_our_post: an insert waits for the uncommitted row of another handler
\* with the same key, and does nothing when the key is there.
Waits(w, b) == \E v \in Workers \ {w} : body[v] = b
Recorded(w, b) == ourPosts[b] # 0

Row(w, outcome, b) == attempts' = [attempts EXCEPT ![<<doing[w], outcome, b>>] = @ + 1]

SkipDuplicate(w, b) ==
    /\ pc[w] = "saving" /\ text[w] = b
    /\ Recorded(w, b)
    /\ Row(w, "skipped_duplicate", b)
    /\ stored' = stored \cup events[w]
    /\ AnswersTrue(doing[w])
    /\ End(w)
    /\ UNCHANGED <<clock, asked, recording, inserting, observing, zendesk, ourPosts,
                   dismissed, faults>>

\* The row is new and the channel is OFF: the attempt counts as posted.
PostedOff(w, b) ==
    /\ pc[w] = "saving" /\ text[w] = b
    /\ ~Recorded(w, b) /\ ~Waits(w, b)
    /\ channel[w] = "off"
    /\ ourPosts' = [ourPosts EXCEPT ![b] = clock]
    /\ Row(w, "posted", b)
    /\ stored' = stored \cup events[w]
    /\ AnswersTrue(doing[w])
    /\ End(w)
    /\ UNCHANGED <<clock, asked, recording, inserting, observing, zendesk, dismissed, faults>>

\* The row is new and the comment is to be posted.
SaveReply(w, b) ==
    /\ pc[w] = "saving" /\ text[w] = b
    /\ ~Recorded(w, b) /\ ~Waits(w, b)
    /\ channel[w] = "on"
    /\ text' = [text EXCEPT ![w] = NoBody]
    /\ body' = [body EXCEPT ![w] = b]
    /\ at' = [at EXCEPT ![w] = clock]
    /\ pc' = [pc EXCEPT ![w] = "posting"]
    /\ UNCHANGED <<ticket, zendesk, ourPosts, attempts, queue, tries, doing, channel, todo,
                   events, dismissed, faults>>

\* Zendesk applies the request of add_comment.
AddComment(w) ==
    /\ pc[w] = "posting"
    /\ shown' = [shown EXCEPT ![<<doing[w], body[w]>>] = @ + 1]
    /\ firstShown' = IF firstShown = 0 THEN clock ELSE firstShown
    /\ pc' = [pc EXCEPT ![w] = "posted"]
    /\ UNCHANGED <<ticket, ourPosts, attempts, queue, tries, doing, channel, todo, text, body, at,
                   events, dismissed, faults>>

\* mark_posted and the commit.
PostedOutcome == "posted"
PostSucceeds(w) ==
    /\ pc[w] = "posted"
    /\ ourPosts' = [ourPosts EXCEPT ![body[w]] = at[w]]
    /\ Row(w, PostedOutcome, body[w])
    /\ stored' = stored \cup events[w]
    /\ AnswersTrue(doing[w])
    /\ End(w)
    /\ UNCHANGED <<clock, asked, recording, inserting, observing, zendesk, dismissed, faults>>

\* add_comment raises: the request was not applied, or it was and its answer is
\* lost.  delete_our_post, mark_failed and the commit.
KeepOurPost(w) == ourPosts' = [ourPosts EXCEPT ![body[w]] = at[w]]
DeleteOurPost(w) == UNCHANGED ourPosts
PostFails(w) ==
    /\ \/ pc[w] = "posting" /\ UNCHANGED faults
       \/ pc[w] = "posted" /\ faults < MaxFaults /\ faults' = faults + 1
    /\ DeleteOurPost(w)
    /\ stored' = stored \cup events[w]
    /\ AnswersFalse(doing[w])
    /\ End(w)
    /\ UNCHANGED <<clock, asked, recording, inserting, observing, zendesk, attempts, dismissed>>

\* The process dies, so that the queue delivers the job again, or an exception
\* (the commit fails) counts as a failed run.  The transaction is rolled back.
HandlerDies(w) ==
    /\ pc[w] # "idle"
    /\ faults < MaxFaults
    /\ faults' = faults + 1
    /\ AnswersFalse(doing[w]) \/ UNCHANGED <<queue, tries>>
    /\ End(w)
    /\ UNCHANGED <<ticket, zendesk, ourPosts, attempts, dismissed>>

TakeInitial == FilterAsService \/ BeginInitial
TakeFollowUp ==
    \E c \in FollowUps :
        NotObserving(c) \/ RetryFollowUp(c) \/ SkipFollowUp(c) \/ BeginFollowUp(c)
Take(w) == IF w = "initial_reply" THEN TakeInitial ELSE TakeFollowUp

\* What a handler does next.  Where it waits for a row, nothing of this is enabled.
Post(w) ==
    \/ ReadConversation(w) \/ StoreComment(w) \/ EmptyReply(w)
    \/ AddComment(w) \/ PostSucceeds(w) \/ PostFails(w)
    \/ \E b \in Bodies : Generate(w, b) \/ SkipDuplicate(w, b) \/ PostedOff(w, b) \/ SaveReply(w, b)

Poll == PollerCommits \/ \E c \in Comments : PollerInserts(c)

Environment ==
    \/ Tick \/ TicketCloses \/ Poll \/ PollerRollsBack
    \/ \E c \in Comments : CommentIsPosted(c) \/ PollerReaches(c)
    \/ \E j \in Jobs : Redeliver(j)

Next == (\E w \in Workers : Take(w) \/ Post(w) \/ LLMHangs(w) \/ HandlerDies(w)) \/ Environment

Spec == Init /\ [][Next]_vars

\* The queue delivers; a handler that neither hangs nor waits runs on, and so does the
\* poller's transaction (the calls to Zendesk have timeouts).  Nothing says that a
\* hung call ends or that the row that a transaction waits for is released.
FairSpec ==
    /\ Spec
    /\ WF_vars(Poll)
    /\ \A w \in Workers : WF_vars(Take(w) \/ Post(w))

----------------------------------------------------------------------------
\* One element for each attempt that counts as posted with a text, and for each comment
\* that Zendesk shows with it, or has from a job.
PostedRows(b) == UNION {{j} \X (1..attempts[<<j, "posted", b>>]) : j \in Jobs}
ShownComments(b) == UNION {{j} \X (1..shown[<<j, b>>]) : j \in Jobs}
CommentsOf(j) == UNION {{b} \X (1..shown[<<j, b>>]) : b \in Bodies}

Posted(b) == Cardinality(PostedRows(b))
Shown(b) == Cardinality(ShownComments(b))
InFlight(b) == Cardinality({w \in Workers : pc[w] = "posted" /\ body[w] = b})

\* A reply is called a duplicate only of a text that our_posts holds committed:
\* never of one that another handler was still posting, and failed to post.
DuplicatesOnlyOfCommitted ==
    \A j \in Jobs, b \in Bodies :
        attempts[<<j, "skipped_duplicate", b>>] > 0 => ourPosts[b] # 0

\* The two tables that say what was posted agree: our_posts, which gates every
\* follow-up, has a text exactly when one attempt of the ticket counts as posted
\* with it, whichever workers, jobs, failed posts and crashes were involved.
PostsMatchAttempts ==
    \A b \in Bodies :
        IF ourPosts[b] = 0
        THEN \A j \in Jobs : attempts[<<j, "posted", b>>] = 0
        ELSE \E j \in Jobs :
                /\ attempts[<<j, "posted", b>>] = 1
                /\ \A i \in Jobs \ {j} : attempts[<<i, "posted", b>>] = 0

\* Zendesk shows no comment that the attempts do not account for, beyond the one
\* that a handler is just waiting for and one for each fault.
ExtraCommentsNeedFaults ==
    \A b \in Bodies : Shown(b) <= Posted(b) + InFlight(b) + faults

\* our_posts, the attempts and what Zendesk shows account for each other: these
\* are the records by which a retry decides whether to post.
PostsAreAccountedFor ==
    DuplicatesOnlyOfCommitted /\ PostsMatchAttempts /\ ExtraCommentsNeedFaults

\* Every job gets its answer, True or the end of its retries, unless the model leaves
\* the handler of its worker hanging.  The two workers and the poller, which wait for
\* event rows and texts of each other, do not block for ever.
JobsAreSettled ==
    \A j \in Jobs :
        queue[j] = "pending" ~> queue[j] \in {"done", "dead"} \/ pc[WorkerOf(j)] = "hung"

\* README.md: "The application records reply attempts and prevents duplicate
\* posting."  A job is answered with one comment at most.
NoDuplicatePosting ==
    \A j \in Jobs : Cardinality(CommentsOf(j)) <= 1

\* README.md: "Failures follow retry/dead-letter behavior rather than being
\* silently dropped."  A customer who answers a comment that Zendesk shows is not
\* turned away as one who wrote before the initial reply.
AnswersAreNotDismissed ==
    \A c \in dismissed : ~(0 < firstShown /\ firstShown < asked[c])
=============================================================================
