----------------------------- MODULE JobQueue ------------------------------
(***************************************************************************)
(* RabbitJobQueue for one (job type, brand): the publisher's retry loop,   *)
(* the main, retry and dead queues, the acknowledgement protocol of        *)
(* _process_message, and the restarts of the consuming service by          *)
(* supervise().                                                            *)
(*                                                                         *)
(* A copy of a job that the broker holds occupies a slot.  The dead queue  *)
(* has no consumer and no TTL, so it is kept as a count per job.  Message  *)
(* order is abstracted: the broker may deliver any message of the main     *)
(* queue, and a retry queue may expire any of its messages.                *)
(***************************************************************************)
EXTENDS Integers, FiniteSets

CONSTANTS
    Jobs,                  \* payloads, of any producer
    Foreign,               \* those of them that no publish() made: bodies that do not parse
    Unbranded,             \* those of these that have no "brand" header
    Slots,                 \* names for the copies that the broker holds at once
    NoSlot, NoJob,         \* "no slot", and what an empty slot holds
    Retries,               \* len(RETRY_DELAYS)
    MaxPublishAttempts,    \* MAX_PUBLISH_ATTEMPTS
    Prefetch,              \* QoS of the consumer's channel
    MaxFaults              \* bound: lost confirms, lost channels and crashes

ASSUME JobQueueAssumption ==
    /\ Foreign \subseteq Jobs
    /\ Unbranded \subseteq Foreign
    /\ NoSlot \notin Slots
    /\ NoJob \notin Jobs
    /\ Retries \in Nat
    /\ MaxPublishAttempts \in Nat \ {0}
    /\ Prefetch \in Nat \ {0}
    /\ MaxFaults \in Nat

VARIABLES
    loc,        \* where the copy in a slot is, "none" when the slot is empty
    job,        \* the payload of the copy
    attempt,    \* its "attempt" header
    pub,        \* the publish() call of a job: not made, running, or its outcome
    tries,      \* publish attempts that call has failed at
    pc,         \* where the consumer is in consume() / _process_message()
    cur,        \* the message _process_message() works on
    fails,      \* how often the handler did not answer True for a job
    completed,  \* how often the handler answered True for a job
    buried,     \* copies of a job in the dead queue
    faults      \* faults that have happened

broker == <<loc, job, attempt>>
publisher == <<pub, tries>>
consumer == <<pc, cur>>
history == <<fails, completed, buried>>
vars == <<loc, job, attempt, pub, tries, pc, cur, fails, completed, buried, faults>>

Places == {"none", "main", "unacked", "orphaned", "retry"}
PublishStates == {"new", "trying", "true", "false", "raised"}
Steps == {"down", "idle", "handling", "retrying", "burying", "acking"}

TypeOK ==
    /\ loc \in [Slots -> Places]
    /\ job \in [Slots -> Jobs \cup {NoJob}]
    /\ attempt \in [Slots -> 0..Retries]
    /\ pub \in [Jobs -> PublishStates]
    /\ tries \in [Jobs -> 0..MaxPublishAttempts]
    /\ pc \in Steps
    /\ cur \in Slots \cup {NoSlot}
    /\ fails \in [Jobs -> Nat]
    /\ completed \in [Jobs -> Nat]
    /\ buried \in [Jobs -> Nat]
    /\ faults \in 0..MaxFaults

Branded == Jobs \ Unbranded
Free == {s \in Slots : loc[s] = "none"}
At(place) == {s \in Slots : loc[s] = place}
CopiesOf(j) == {s \in Slots : job[s] = j}

Init ==
    /\ loc = [s \in Slots |-> "none"]
    /\ job = [s \in Slots |-> NoJob]
    /\ attempt = [s \in Slots |-> 0]
    /\ pub = [j \in Jobs |-> "new"]
    /\ tries = [j \in Jobs |-> 0]
    /\ pc = "down"
    /\ cur = NoSlot
    /\ fails = [j \in Jobs |-> 0]
    /\ completed = [j \in Jobs |-> 0]
    /\ buried = [j \in Jobs |-> 0]
    /\ faults = 0

----------------------------------------------------------------------------
\* The retry queues that _declare_brand_topology declares, by the number in
\* their name; as a change that numbers them from 0 would declare them.
RetryQueuesFromZero == 0..(Retries - 1)
RetryQueues == 1..Retries

\* An exchange routes a persistent copy of job j into a durable queue.
Store(j, place, n) ==
    \E s \in Free :
        /\ loc' = [loc EXCEPT ![s] = place]
        /\ job' = [job EXCEPT ![s] = j]
        /\ attempt' = [attempt EXCEPT ![s] = n]

Publishing(j) == j \notin Foreign /\ pub[j] \in {"new", "trying"}

\* The broker confirms the message: publish() returns True.
PublishConfirmed(j) ==
    /\ Publishing(j)
    /\ Store(j, "main", 0)
    /\ pub' = [pub EXCEPT ![j] = "true"]
    /\ UNCHANGED <<tries, pc, cur, history, faults>>

\* One more attempt failed with AMQPError or ConnectionError; the last of
\* them makes publish() return False.  (First as an off-by-one in range().)
CountFailedTryTooOften(j) ==
    /\ tries' = [tries EXCEPT ![j] = @ + 1]
    /\ pub' = [pub EXCEPT ![j] = IF tries[j] < MaxPublishAttempts THEN "trying" ELSE "false"]
CountFailedTry(j) ==
    /\ tries' = [tries EXCEPT ![j] = @ + 1]
    /\ pub' = [pub EXCEPT ![j] = IF tries[j] + 1 < MaxPublishAttempts THEN "trying" ELSE "false"]

\* The attempt fails before the broker has the message.
PublishRefused(j) ==
    /\ Publishing(j)
    /\ CountFailedTry(j)
    /\ UNCHANGED <<broker, consumer, history, faults>>

\* The broker has stored the message when the connection breaks, so that the
\* loop counts a failure and sends the same job again.
PublishUnconfirmed(j) ==
    /\ Publishing(j)
    /\ faults < MaxFaults
    /\ Store(j, "main", 0)
    /\ CountFailedTry(j)
    /\ faults' = faults + 1
    /\ UNCHANGED <<consumer, history>>

\* ensure() raises something that publish() does not catch (the TimeoutError
\* of anyio.fail_after in _reconnect): the exception leaves publish().
PublishRaises(j) ==
    /\ Publishing(j)
    /\ pub' = [pub EXCEPT ![j] = "raised"]
    /\ UNCHANGED <<broker, tries, consumer, history, faults>>

\* Somebody else puts a message that is not JSON into the main queue.
ForeignMessage(j) ==
    /\ j \in Foreign
    /\ pub[j] = "new"
    /\ Store(j, "main", 0)
    /\ pub' = [pub EXCEPT ![j] = "true"]
    /\ UNCHANGED <<tries, consumer, history, faults>>

----------------------------------------------------------------------------
\* supervise() runs the service (again): create_job_queue() and consume()
\* connect, declare the topology and start the queue iterator.
Start ==
    /\ pc = "down"
    /\ pc' = "idle"
    /\ UNCHANGED <<broker, publisher, cur, history, faults>>

\* The broker pushes a message to the consumer, within the prefetch window.
Deliver(s) ==
    /\ pc # "down"
    /\ loc[s] = "main"
    /\ Cardinality(At("unacked")) < Prefetch
    /\ loc' = [loc EXCEPT ![s] = "unacked"]
    /\ UNCHANGED <<job, attempt, publisher, consumer, history, faults>>

\* The iterator hands the next message to _process_message, which sends a body
\* that does not parse straight to the dead queue.
Take(s) ==
    /\ pc = "idle"
    /\ loc[s] = "unacked"
    /\ cur' = s
    /\ pc' = IF job[s] \in Foreign THEN "burying" ELSE "handling"
    /\ UNCHANGED <<broker, publisher, history, faults>>

\* The handler answers True.
HandlerSucceeds ==
    /\ pc = "handling"
    /\ completed' = [completed EXCEPT ![job[cur]] = @ + 1]
    /\ pc' = "acking"
    /\ UNCHANGED <<broker, publisher, cur, fails, buried, faults>>

\* The attempt after one more failure, the header that the copy carries, and the
\* test that gives a message up.  A definition whose name ends in Kept, Early or
\* Late is a plausible mistake in the one that follows it.
Incremented(n) == n + 1
Header(n) == Incremented(n)
GivesUpEarly(n) == n >= Retries
GivesUp(n) == n > Retries

\* The handler answers False or raises: the incremented attempt decides between
\* the retry queue of that number and the dead queue.
HandlerFails ==
    /\ pc = "handling"
    /\ fails' = [fails EXCEPT ![job[cur]] = @ + 1]
    /\ pc' = IF GivesUp(Incremented(attempt[cur])) THEN "burying" ELSE "retrying"
    /\ UNCHANGED <<broker, publisher, cur, completed, buried, faults>>

\* _nack_to_retry, first half: a copy with the new header goes to the retry
\* queue of that attempt.  The broker drops what names a queue that
\* _declare_brand_topology did not declare.
NackToRetry ==
    /\ pc = "retrying"
    /\ IF Incremented(attempt[cur]) \in RetryQueues
       THEN Store(job[cur], "retry", Header(attempt[cur]))
       ELSE UNCHANGED broker
    /\ pc' = "acking"
    /\ UNCHANGED <<publisher, cur, history, faults>>

\* _send_to_dead: a copy goes to the dead queue of the brand in its headers.
\* Without that header it goes to that of the brand "unknown", which nobody
\* declares: the broker drops it.
SendToDead ==
    /\ pc = "burying"
    /\ buried' = IF job[cur] \in Unbranded THEN buried ELSE [buried EXCEPT ![job[cur]] = @ + 1]
    /\ pc' = "acking"
    /\ UNCHANGED <<broker, publisher, cur, fails, completed, faults>>

\* The original is rejected with requeue instead of acknowledged.
AckByRequeue ==
    /\ pc = "acking"
    /\ loc' = [loc EXCEPT ![cur] = "main"]
    /\ pc' = "idle"
    /\ cur' = NoSlot
    /\ UNCHANGED <<job, attempt, publisher, history, faults>>
\* message.ack(): the broker drops the original and the loop goes on.
Ack ==
    /\ pc = "acking"
    /\ loc' = [loc EXCEPT ![cur] = "none"]
    /\ job' = [job EXCEPT ![cur] = NoJob]
    /\ attempt' = [attempt EXCEPT ![cur] = 0]
    /\ pc' = "idle"
    /\ cur' = NoSlot
    /\ UNCHANGED <<publisher, history, faults>>

\* The channel is lost, a call to the broker raises, or the process dies: the
\* exception ends run().  What was delivered and not acknowledged belongs to a
\* channel that nobody reads any more.
ConsumerFails ==
    /\ pc # "down"
    /\ faults < MaxFaults
    /\ loc' = [s \in Slots |-> IF loc[s] = "unacked" THEN "orphaned" ELSE loc[s]]
    /\ pc' = "down"
    /\ cur' = NoSlot
    /\ faults' = faults + 1
    /\ UNCHANGED <<job, attempt, publisher, history>>

----------------------------------------------------------------------------

\* The broker closes the dead channel and requeues its message.
Requeue(s) ==
    /\ loc[s] = "orphaned"
    /\ loc' = [loc EXCEPT ![s] = "main"]
    /\ UNCHANGED <<job, attempt, publisher, consumer, history, faults>>

\* x-message-ttl of the retry queue expires: the message is dead-lettered to
\* the main queue with its headers.
RetryExpires(s) ==
    /\ loc[s] = "retry"
    /\ loc' = [loc EXCEPT ![s] = "main"]
    /\ UNCHANGED <<job, attempt, publisher, consumer, history, faults>>

Publish(j) == PublishConfirmed(j) \/ PublishRefused(j) \/ PublishUnconfirmed(j) \/ PublishRaises(j)
Decide == HandlerSucceeds \/ HandlerFails
Process == Decide \/ NackToRetry \/ SendToDead \/ Ack
Broker(s) == Deliver(s) \/ Requeue(s) \/ RetryExpires(s)

Next ==
    \/ \E j \in Jobs : Publish(j) \/ ForeignMessage(j)
    \/ Start \/ Process \/ ConsumerFails
    \/ \E s \in Slots : Take(s) \/ Broker(s)

Spec == Init /\ [][Next]_vars

\* supervise() restarts the service for ever, the iterator loop goes on, and the
\* broker delivers, expires and requeues.  Nothing says that a handler succeeds,
\* that anybody publishes, or that a fault happens.
Fairness ==
    /\ WF_vars(Start)
    /\ WF_vars(Process)
    /\ \A s \in Slots : WF_vars(Take(s)) /\ WF_vars(Broker(s))

FairSpec == Spec /\ Fairness

----------------------------------------------------------------------------
\* The copies of j that still have to be worked on: all but the one whose
\* acknowledgement is the only thing missing.
Open(j) == {s \in CopiesOf(j) : ~(pc = "acking" /\ s = cur)}

\* publish(): "True if the message was successfully published".  A job that was
\* published (or put into the queue by somebody else) is held by the broker, or
\* its handler has answered True, or it lies in the dead queue; whatever crash,
\* lost channel or lost confirm happens in between.
PublishedNeverLost ==
    \A j \in Branded :
        pub[j] = "true" => CopiesOf(j) # {} \/ completed[j] > 0 \/ buried[j] > 0

\* _process_message gives up a job that parses only after its handler has failed
\* on it len(RETRY_DELAYS) + 1 times: a redelivery, a restart or a duplicate
\* copy never shortens the ladder of retries.
BuriedOnlyAfterAllRetries ==
    \A j \in Jobs \ Foreign : buried[j] > 0 => fails[j] >= Retries + 1

\* Every duplicate has a fault to blame: the verdicts a job got and the copies
\* still to be worked on are at most one more than the faults so far, so that a
\* run without faults handles a job to the end exactly once; and each fault costs
\* at most one more ladder of len(RETRY_DELAYS) + 1 failing handler calls.
DuplicatesNeedFaults ==
    \A j \in Jobs :
        /\ Cardinality(Open(j)) + completed[j] + buried[j] <= 1 + faults
        /\ fails[j] <= (Retries + 1) * (1 + faults)

\* The queue implements the promise made to the rest of the program.
Delivery == INSTANCE JobDelivery WITH
    Jobs <- Branded,
    promised <- {j \in Branded : pub[j] = "true"},
    pending <- {j \in Branded : CopiesOf(j) # {}},
    completed <- {j \in Branded : completed[j] > 0},
    buried <- {j \in Branded : buried[j] > 0}



\* The class comment of RabbitJobQueue: "Retry and dead queues DO use DLX + TTL
\* to bounce messages back to the main exchange."  A job that is in the dead
\* queue comes back to the consumer.
DeadJobsBounceBack ==
    \A j \in Jobs : buried[j] > 0 ~> pc = "handling" /\ job[cur] = j
=============================================================================
