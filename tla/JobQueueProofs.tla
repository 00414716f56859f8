-------------------------- MODULE JobQueueProofs ---------------------------
(***************************************************************************)
(* Proofs about JobQueue, for every set of jobs and slots, every number of *)
(* retries and every number of faults.                                     *)
(***************************************************************************)
EXTENDS JobQueue, FiniteSetTheorems, TLAPS

\* publish() stops after MAX_PUBLISH_ATTEMPTS: while it runs it has tries left.
TriesLeft == \A j \in Jobs : pub[j] \in {"new", "trying"} => tries[j] < MaxPublishAttempts

\* A slot is empty exactly when it holds no job.
SlotsConsistent == \A s \in Slots : loc[s] = "none" <=> job[s] = NoJob

\* _process_message works on a message that the broker still has, until it
\* acknowledges it: the copy that replaces it is made first.
Busy == {"handling", "retrying", "burying", "acking"}
InHand ==
    /\ pc \in Busy => cur \in Slots /\ loc[cur] = "unacked" /\ job[cur] \in Jobs
    /\ pc = "acking" =>
        \/ job[cur] \in Unbranded
        \/ completed[job[cur]] > 0
        \/ buried[job[cur]] > 0
        \/ \E s \in Slots \ {cur} : job[s] = job[cur]
    /\ pc = "retrying" => attempt[cur] + 1 <= Retries

\* The attempt header of a copy counts failures that did happen.
HonestHeaders ==
    /\ \A s \in Slots : loc[s] # "none" => attempt[s] <= fails[job[s]]
    /\ pc = "retrying" => attempt[cur] + 1 <= fails[job[cur]]
    /\ pc = "burying" /\ job[cur] \notin Foreign => fails[job[cur]] >= Retries + 1

\* The two inductive invariants: Safe is what never being lost rests on, and
\* with HonestHeaders it also carries the claim about buried jobs.
Safe ==
    /\ TypeOK
    /\ TriesLeft
    /\ SlotsConsistent
    /\ InHand
    /\ PublishedNeverLost

Ladder ==
    /\ HonestHeaders
    /\ BuriedOnlyAfterAllRetries

----------------------------------------------------------------------------
\* Init establishes both.
LEMMA InitSafe == Init => Safe /\ Ladder
<1> SUFFICES ASSUME Init PROVE Safe /\ Ladder
  OBVIOUS
<1> USE JobQueueAssumption DEF Init
<1>1. TypeOK
  BY DEF TypeOK, Places, PublishStates, Steps
<1>2. TriesLeft /\ SlotsConsistent
  BY DEF TriesLeft, SlotsConsistent
<1>3. InHand /\ PublishedNeverLost
  BY DEF InHand, Busy, PublishedNeverLost, Branded
<1>4. Ladder
  BY DEF Ladder, HonestHeaders, BuriedOnlyAfterAllRetries
<1> QED
  BY <1>1, <1>2, <1>3, <1>4 DEF Safe

----------------------------------------------------------------------------
(***************************************************************************)
(* The publisher's actions.                                                *)
(***************************************************************************)

\* What storing a copy does to the slots: one that was empty is taken, the
\* others keep their copies.
LEMMA StoreEffect ==
    ASSUME TypeOK, SlotsConsistent,
           NEW j \in Jobs, NEW place \in {"main", "retry"}, NEW n \in 0..Retries,
           Store(j, place, n)
    PROVE  /\ loc' \in [Slots -> Places]
           /\ job' \in [Slots -> Jobs \cup {NoJob}]
           /\ attempt' \in [Slots -> 0..Retries]
           /\ SlotsConsistent'
           /\ \E s \in Slots :
                /\ loc[s] = "none" /\ job[s] = NoJob
                /\ loc'[s] = place /\ job'[s] = j /\ attempt'[s] = n
                /\ \A t \in Slots \ {s} :
                      loc'[t] = loc[t] /\ job'[t] = job[t] /\ attempt'[t] = attempt[t]
<1>1. PICK s \in Slots :
        /\ loc[s] = "none"
        /\ loc' = [loc EXCEPT ![s] = place]
        /\ job' = [job EXCEPT ![s] = j]
        /\ attempt' = [attempt EXCEPT ![s] = n]
  BY DEF Store, Free
<1>2. /\ loc' \in [Slots -> Places]
      /\ job' \in [Slots -> Jobs \cup {NoJob}]
      /\ attempt' \in [Slots -> 0..Retries]
  BY <1>1 DEF TypeOK, Places
<1>3. /\ loc'[s] = place /\ job'[s] = j /\ attempt'[s] = n
      /\ \A t \in Slots \ {s} :
            loc'[t] = loc[t] /\ job'[t] = job[t] /\ attempt'[t] = attempt[t]
  BY <1>1 DEF TypeOK
<1>4. SlotsConsistent'
  BY <1>3, JobQueueAssumption DEF SlotsConsistent
<1>5. job[s] = NoJob
  BY <1>1 DEF SlotsConsistent
<1> QED
  BY <1>1, <1>2, <1>3, <1>4, <1>5

\* The consumer's claims about the message in its hand survive every step that
\* leaves the consumer alone and keeps the copies that the broker holds.
LEMMA HandKept ==
    ASSUME Safe, UNCHANGED <<pc, cur, completed, buried>>,
           \A t \in Slots : loc[t] # "none" => job'[t] = job[t] /\ attempt'[t] = attempt[t],
           pc \in Busy => loc'[cur] = loc[cur]
    PROVE  InHand'
<1>1. CASE pc \in Busy
  <2>1. /\ cur \in Slots /\ loc[cur] = "unacked" /\ job[cur] \in Jobs
        /\ job'[cur] = job[cur] /\ attempt'[cur] = attempt[cur]
    BY <1>1 DEF Safe, InHand
  <2>2. ASSUME NEW t \in Slots \ {cur}, job[t] = job[cur]
        PROVE  job'[t] = job'[cur]
    BY <2>1, <2>2, JobQueueAssumption DEF Safe, SlotsConsistent
  <2> QED
    BY <2>1, <2>2 DEF Safe, InHand
<1>2. CASE pc \notin Busy
  BY <1>2 DEF InHand, Busy
<1> QED
  BY <1>1, <1>2

\* The effect of an action that stores a fresh copy of j in the main queue.
Stored(j) ==
    \E s \in Slots :
        /\ loc[s] = "none" /\ job[s] = NoJob
        /\ loc'[s] = "main" /\ job'[s] = j /\ attempt'[s] = 0
        /\ \A t \in Slots \ {s} :
              loc'[t] = loc[t] /\ job'[t] = job[t] /\ attempt'[t] = attempt[t]

\* Such a step keeps what is known of the message in hand and of the headers.
LEMMA StoredKeeps ==
    ASSUME Safe, Ladder, UNCHANGED <<pc, cur, history>>, NEW j \in Jobs, Stored(j)
    PROVE  InHand' /\ Ladder'
<1>1. PICK s \in Slots :
        /\ loc[s] = "none" /\ job[s] = NoJob
        /\ loc'[s] = "main" /\ job'[s] = j /\ attempt'[s] = 0
        /\ \A t \in Slots \ {s} :
              loc'[t] = loc[t] /\ job'[t] = job[t] /\ attempt'[t] = attempt[t]
  BY DEF Stored
<1>2. pc \in Busy => cur \in Slots \ {s}
  BY <1>1 DEF Safe, InHand
<1>3. InHand'
  BY <1>1, <1>2, HandKept DEF history
<1>4. HonestHeaders'
  <2>1. ASSUME NEW t \in Slots, loc'[t] # "none"
        PROVE  attempt'[t] <= fails'[job'[t]]
    BY <1>1, <2>1 DEF Ladder, HonestHeaders, Safe, TypeOK, history
  <2>2. /\ pc' = "retrying" => attempt'[cur'] + 1 <= fails'[job'[cur']]
        /\ pc' = "burying" /\ job'[cur'] \notin Foreign => fails'[job'[cur']] >= Retries + 1
    BY <1>1, <1>2 DEF Ladder, HonestHeaders, Busy, history
  <2> QED
    BY <2>1, <2>2 DEF HonestHeaders
<1>5. BuriedOnlyAfterAllRetries'
  BY DEF Ladder, BuriedOnlyAfterAllRetries, history
<1> QED
  BY <1>3, <1>4, <1>5 DEF Ladder

\* A job that publish() has just stored is held by the broker; the other jobs
\* keep their copies.
LEMMA PublishConfirmedStep ==
    ASSUME Safe, Ladder, NEW j \in Jobs, PublishConfirmed(j)
    PROVE  Safe' /\ Ladder'
<1> USE DEF PublishConfirmed
<1>1. /\ Stored(j)
      /\ SlotsConsistent'
      /\ loc' \in [Slots -> Places]
      /\ job' \in [Slots -> Jobs \cup {NoJob}]
      /\ attempt' \in [Slots -> 0..Retries]
  BY StoreEffect, JobQueueAssumption DEF Safe, Stored
<1>2. TypeOK'
  BY <1>1 DEF Safe, TypeOK, PublishStates, history
<1>3. TriesLeft'
  BY DEF Safe, TriesLeft, TypeOK
<1>4. PublishedNeverLost'
  BY <1>1, JobQueueAssumption DEF Safe, Stored, PublishedNeverLost, Branded, CopiesOf, TypeOK, history
<1> QED
  BY <1>1, <1>2, <1>3, <1>4, StoredKeeps DEF Safe

\* Somebody else's message enters like a published one.
LEMMA ForeignMessageStep ==
    ASSUME Safe, Ladder, NEW j \in Jobs, ForeignMessage(j)
    PROVE  Safe' /\ Ladder'
<1> USE DEF ForeignMessage
<1>1. /\ Stored(j)
      /\ SlotsConsistent'
      /\ loc' \in [Slots -> Places]
      /\ job' \in [Slots -> Jobs \cup {NoJob}]
      /\ attempt' \in [Slots -> 0..Retries]
  BY StoreEffect, JobQueueAssumption DEF Safe, Stored
<1>2. TypeOK'
  BY <1>1 DEF Safe, TypeOK, PublishStates, consumer, history
<1>3. TriesLeft'
  BY DEF Safe, TriesLeft, TypeOK
<1>4. PublishedNeverLost'
  BY <1>1, JobQueueAssumption DEF Safe, Stored, PublishedNeverLost, Branded, CopiesOf, TypeOK, history
<1> QED
  BY <1>1, <1>2, <1>3, <1>4, StoredKeeps DEF Safe, consumer

\* A failed attempt leaves the publisher with tries to spare, or ends publish()
\* with False; either way it answers for no job.
LEMMA FailedTry ==
    ASSUME Safe, NEW j \in Jobs, Publishing(j), CountFailedTry(j)
    PROVE  /\ pub' \in [Jobs -> PublishStates]
           /\ tries' \in [Jobs -> 0..MaxPublishAttempts]
           /\ TriesLeft'
           /\ \A k \in Jobs : pub'[k] = "true" => pub[k] = "true"
<1>1. tries[j] < MaxPublishAttempts
  BY DEF Publishing, Safe, TriesLeft
<1> QED
  BY <1>1, JobQueueAssumption
  DEF Safe, TypeOK, TriesLeft, CountFailedTry, PublishStates

\* The copy that the publisher does not learn of answers for its job as well.
LEMMA PublishUnconfirmedStep ==
    ASSUME Safe, Ladder, NEW j \in Jobs, PublishUnconfirmed(j)
    PROVE  Safe' /\ Ladder'
<1> USE DEF PublishUnconfirmed
<1>1. /\ Stored(j)
      /\ SlotsConsistent'
      /\ loc' \in [Slots -> Places]
      /\ job' \in [Slots -> Jobs \cup {NoJob}]
      /\ attempt' \in [Slots -> 0..Retries]
  BY StoreEffect, JobQueueAssumption DEF Safe, Stored
<1>2. TypeOK' /\ TriesLeft'
  BY <1>1, FailedTry, JobQueueAssumption DEF Safe, TypeOK, consumer, history
<1>3. PublishedNeverLost'
  BY <1>1, FailedTry, JobQueueAssumption
  DEF Safe, Stored, PublishedNeverLost, Branded, CopiesOf, TypeOK, history
<1> QED
  BY <1>1, <1>2, <1>3, StoredKeeps DEF Safe, consumer

\* Steps of the publisher that leave the broker alone.
LEMMA PublishFailsStep ==
    ASSUME Safe, Ladder, NEW j \in Jobs, PublishRefused(j) \/ PublishRaises(j)
    PROVE  Safe' /\ Ladder'
<1>1. UNCHANGED <<loc, job, attempt, pc, cur, fails, completed, buried, faults>>
  BY DEF PublishRefused, PublishRaises, broker, consumer, history
<1>2. /\ pub' \in [Jobs -> PublishStates]
      /\ tries' \in [Jobs -> 0..MaxPublishAttempts]
      /\ TriesLeft'
      /\ \A k \in Jobs : pub'[k] = "true" => pub[k] = "true"
  <2>1. CASE PublishRefused(j)
    BY <2>1, FailedTry DEF PublishRefused
  <2>2. CASE PublishRaises(j)
    BY <2>2 DEF PublishRaises, Safe, TypeOK, TriesLeft, PublishStates
  <2> QED
    BY <2>1, <2>2
<1>3. TypeOK' /\ SlotsConsistent'
  BY <1>1, <1>2 DEF Safe, TypeOK, SlotsConsistent
<1>4. InHand' /\ Ladder'
  BY <1>1 DEF Safe, InHand, Ladder, HonestHeaders, BuriedOnlyAfterAllRetries
<1>5. PublishedNeverLost'
  BY <1>1, <1>2 DEF Safe, PublishedNeverLost, Branded, CopiesOf
<1> QED
  BY <1>2, <1>3, <1>4, <1>5 DEF Safe

----------------------------------------------------------------------------
(***************************************************************************)
(* The broker's actions.                                                   *)
(***************************************************************************)

\* The broker moves a message that the consumer does not work on.
LEMMA BrokerStep ==
    ASSUME Safe, Ladder, NEW s \in Slots, Broker(s)
    PROVE  Safe' /\ Ladder'
<1>1. /\ loc[s] \in {"main", "orphaned", "retry"}
      /\ \E place \in {"main", "unacked"} : loc' = [loc EXCEPT ![s] = place]
      /\ UNCHANGED <<job, attempt, pub, tries, pc, cur, fails, completed, buried, faults>>
  BY DEF Broker, Deliver, Requeue, RetryExpires, publisher, consumer, history
<1>2. TypeOK' /\ TriesLeft'
  BY <1>1 DEF Safe, TypeOK, TriesLeft, Places
<1>3. \A t \in Slots : loc'[t] = "none" <=> loc[t] = "none"
  BY <1>1 DEF Safe, TypeOK
<1>4. SlotsConsistent'
  BY <1>1, <1>3 DEF Safe, SlotsConsistent
<1>5. InHand'
  <2>1. pc \in Busy => loc'[cur] = loc[cur]
    BY <1>1 DEF Safe, InHand, TypeOK
  <2> QED
    BY <1>1, <2>1, HandKept
<1>6. PublishedNeverLost'
  BY <1>1 DEF Safe, PublishedNeverLost, Branded, CopiesOf
<1>7. Ladder'
  BY <1>1, <1>3 DEF Ladder, HonestHeaders, BuriedOnlyAfterAllRetries
<1> QED
  BY <1>2, <1>4, <1>5, <1>6, <1>7 DEF Safe

----------------------------------------------------------------------------
(***************************************************************************)
(* The consumer's actions.                                                 *)
(***************************************************************************)

\* Starting the service and taking the next message leave the broker alone.
LEMMA StartStep ==
    ASSUME Safe, Ladder, Start
    PROVE  Safe' /\ Ladder'
BY DEF Start, Safe, Ladder, TypeOK, Steps, TriesLeft, SlotsConsistent, InHand, Busy,
       PublishedNeverLost, Branded, CopiesOf, HonestHeaders, BuriedOnlyAfterAllRetries,
       broker, publisher, history

\* What the iterator takes is a message that the broker holds unacknowledged.
LEMMA TakeStep ==
    ASSUME Safe, Ladder, NEW s \in Slots, Take(s)
    PROVE  Safe' /\ Ladder'
<1> USE DEF Take, broker, publisher, history
<1>1. TypeOK' /\ TriesLeft' /\ SlotsConsistent'
  BY DEF Safe, TypeOK, Steps, TriesLeft, SlotsConsistent
<1>2. job[s] \in Jobs
  BY DEF Safe, SlotsConsistent, TypeOK
<1>3. InHand' /\ HonestHeaders'
  BY <1>2 DEF InHand, Busy, Ladder, HonestHeaders
<1>4. PublishedNeverLost' /\ BuriedOnlyAfterAllRetries'
  BY DEF Safe, PublishedNeverLost, Branded, CopiesOf, Ladder, BuriedOnlyAfterAllRetries
<1> QED
  BY <1>1, <1>3, <1>4 DEF Safe, Ladder

\* The handler's answer is counted; the message in hand stays where it is.
LEMMA DecideStep ==
    ASSUME Safe, Ladder, Decide
    PROVE  Safe' /\ Ladder'
<1> USE DEF broker, publisher
<1>1. cur \in Slots /\ loc[cur] = "unacked" /\ job[cur] \in Jobs /\ attempt[cur] \in 0..Retries
  BY DEF Decide, HandlerSucceeds, HandlerFails, Safe, InHand, Busy, TypeOK
<1>2. CASE HandlerSucceeds
  <2>1. completed' \in [Jobs -> Nat] /\ completed'[job[cur]] > 0
        /\ \A j \in Jobs : completed'[j] >= completed[j]
    BY <1>1, <1>2 DEF HandlerSucceeds, Safe, TypeOK
  <2>2. TypeOK' /\ TriesLeft' /\ SlotsConsistent'
    BY <1>2, <2>1 DEF HandlerSucceeds, Safe, TypeOK, Steps, TriesLeft, SlotsConsistent
  <2>3. InHand' /\ Ladder'
    BY <1>1, <1>2, <2>1
    DEF HandlerSucceeds, InHand, Ladder, HonestHeaders, BuriedOnlyAfterAllRetries
  <2>4. PublishedNeverLost'
    BY <1>2, <2>1 DEF HandlerSucceeds, Safe, PublishedNeverLost, Branded, CopiesOf, TypeOK
  <2> QED
    BY <2>2, <2>3, <2>4 DEF Safe
<1>3. CASE HandlerFails
  <2>1. /\ fails' \in [Jobs -> Nat]
        /\ fails'[job[cur]] = fails[job[cur]] + 1
        /\ \A j \in Jobs : fails'[j] >= fails[j]
    BY <1>1, <1>3 DEF HandlerFails, Safe, TypeOK
  <2>2. TypeOK' /\ TriesLeft' /\ SlotsConsistent'
    BY <1>3, <2>1 DEF HandlerFails, Safe, TypeOK, Steps, TriesLeft, SlotsConsistent
  <2>3. InHand'
    BY <1>1, <1>3, JobQueueAssumption DEF HandlerFails, InHand, GivesUp, Incremented
  <2>4. attempt[cur] <= fails[job[cur]] /\ fails[job[cur]] \in Nat
    BY <1>1 DEF Ladder, HonestHeaders, Safe, TypeOK
  <2>5. HonestHeaders'
    <3>1. ASSUME NEW t \in Slots, loc[t] # "none"
          PROVE  attempt[t] <= fails'[job[t]]
      <4>1. job[t] \in Jobs /\ attempt[t] \in Nat
        BY <3>1, JobQueueAssumption DEF Safe, SlotsConsistent, TypeOK
      <4> QED
        BY <2>1, <3>1, <4>1 DEF Ladder, HonestHeaders, Safe, TypeOK
    <3>2. /\ pc' = "retrying" => attempt[cur] + 1 <= fails'[job[cur]]
          /\ pc' = "burying" => fails'[job[cur]] >= Retries + 1
      BY <1>1, <1>3, <2>1, <2>4, JobQueueAssumption DEF HandlerFails, GivesUp, Incremented
    <3> QED
      BY <1>3, <3>1, <3>2 DEF HandlerFails, HonestHeaders
  <2>6. BuriedOnlyAfterAllRetries'
    BY <1>3, <2>1, JobQueueAssumption
    DEF HandlerFails, Ladder, BuriedOnlyAfterAllRetries, Safe, TypeOK
  <2>7. PublishedNeverLost'
    BY <1>3 DEF HandlerFails, Safe, PublishedNeverLost, Branded, CopiesOf
  <2> QED
    BY <2>2, <2>3, <2>5, <2>6, <2>7 DEF Safe, Ladder
<1> QED
  BY <1>2, <1>3 DEF Decide

\* The copy in the retry queue answers for the message about to be acknowledged.
LEMMA NackToRetryStep ==
    ASSUME Safe, Ladder, NackToRetry
    PROVE  Safe' /\ Ladder'
<1> USE DEF NackToRetry, publisher, history
<1>1. /\ cur \in Slots /\ loc[cur] = "unacked" /\ job[cur] \in Jobs
      /\ attempt[cur] \in 0..Retries /\ attempt[cur] + 1 <= Retries
      /\ attempt[cur] + 1 <= fails[job[cur]]
  BY DEF Safe, InHand, Busy, TypeOK, Ladder, HonestHeaders
<1>2. attempt[cur] + 1 \in 1..Retries /\ Store(job[cur], "retry", attempt[cur] + 1)
  BY <1>1, JobQueueAssumption DEF Incremented, Header, RetryQueues
<1>3. /\ loc' \in [Slots -> Places]
      /\ job' \in [Slots -> Jobs \cup {NoJob}]
      /\ attempt' \in [Slots -> 0..Retries]
      /\ SlotsConsistent'
      /\ \E s \in Slots :
           /\ loc[s] = "none" /\ job[s] = NoJob
           /\ loc'[s] = "retry" /\ job'[s] = job[cur] /\ attempt'[s] = attempt[cur] + 1
           /\ \A t \in Slots \ {s} :
                 loc'[t] = loc[t] /\ job'[t] = job[t] /\ attempt'[t] = attempt[t]
  BY <1>1, <1>2, StoreEffect, JobQueueAssumption DEF Safe
<1>4. PICK s \in Slots :
        /\ loc[s] = "none" /\ job[s] = NoJob
        /\ loc'[s] = "retry" /\ job'[s] = job[cur] /\ attempt'[s] = attempt[cur] + 1
        /\ \A t \in Slots \ {s} :
              loc'[t] = loc[t] /\ job'[t] = job[t] /\ attempt'[t] = attempt[t]
  BY <1>3
<1>5. s # cur /\ loc'[cur] = "unacked" /\ job'[cur] = job[cur]
  BY <1>1, <1>4
<1>6. TypeOK' /\ TriesLeft'
  BY <1>3 DEF Safe, TypeOK, Steps, TriesLeft
<1>7. InHand'
  BY <1>1, <1>4, <1>5 DEF InHand, Busy
<1>8. PublishedNeverLost'
  BY <1>4, JobQueueAssumption DEF Safe, PublishedNeverLost, Branded, CopiesOf
<1>9. HonestHeaders'
  <2>1. ASSUME NEW t \in Slots, loc'[t] # "none"
        PROVE  attempt'[t] <= fails[job'[t]]
    BY <1>1, <1>4, <2>1 DEF Ladder, HonestHeaders
  <2> QED
    BY <2>1 DEF HonestHeaders
<1>10. BuriedOnlyAfterAllRetries'
  BY DEF Ladder, BuriedOnlyAfterAllRetries
<1> QED
  BY <1>3, <1>6, <1>7, <1>8, <1>9, <1>10 DEF Safe, Ladder

\* A job is buried with all its failures on record, or because it cannot parse.
LEMMA SendToDeadStep ==
    ASSUME Safe, Ladder, SendToDead
    PROVE  Safe' /\ Ladder'
<1> USE DEF SendToDead, broker, publisher
<1>1. cur \in Slots /\ loc[cur] = "unacked" /\ job[cur] \in Jobs
  BY DEF Safe, InHand, Busy
<1>2. /\ buried' \in [Jobs -> Nat] /\ (job[cur] \notin Unbranded => buried'[job[cur]] > 0)
      /\ \A j \in Jobs : buried'[j] >= buried[j]
      /\ \A j \in Jobs : buried'[j] > 0 => buried[j] > 0 \/ j = job[cur]
  BY <1>1 DEF Safe, TypeOK
<1>3. TypeOK' /\ TriesLeft' /\ SlotsConsistent'
  BY <1>2 DEF Safe, TypeOK, Steps, TriesLeft, SlotsConsistent
<1>4. InHand' /\ HonestHeaders'
  BY <1>1, <1>2 DEF InHand, Ladder, HonestHeaders
<1>5. PublishedNeverLost'
  BY <1>2 DEF Safe, PublishedNeverLost, Branded, CopiesOf, TypeOK
<1>6. BuriedOnlyAfterAllRetries'
  BY <1>2 DEF Ladder, HonestHeaders, BuriedOnlyAfterAllRetries
<1> QED
  BY <1>3, <1>4, <1>5, <1>6 DEF Safe, Ladder

\* Only the acknowledged copy disappears, and its job has a verdict or a copy.
LEMMA AckStep ==
    ASSUME Safe, Ladder, Ack
    PROVE  Safe' /\ Ladder'
<1> USE DEF Ack, publisher, history
<1>1. /\ cur \in Slots /\ loc[cur] = "unacked" /\ job[cur] \in Jobs
      /\ \/ job[cur] \in Unbranded
         \/ completed[job[cur]] > 0
         \/ buried[job[cur]] > 0
         \/ \E s \in Slots \ {cur} : job[s] = job[cur]
  BY DEF Safe, InHand, Busy
<1>2. /\ loc'[cur] = "none" /\ job'[cur] = NoJob
      /\ \A t \in Slots \ {cur} :
            loc'[t] = loc[t] /\ job'[t] = job[t] /\ attempt'[t] = attempt[t]
  BY <1>1 DEF Safe, TypeOK
<1>3. TypeOK' /\ TriesLeft'
  BY <1>1, JobQueueAssumption DEF Safe, TypeOK, Places, Steps, TriesLeft
<1>4. SlotsConsistent'
  BY <1>2 DEF Safe, SlotsConsistent
<1>5. InHand'
  BY DEF InHand, Busy
<1>6. PublishedNeverLost'
  <2> SUFFICES ASSUME NEW j \in Branded, pub[j] = "true"
               PROVE  CopiesOf(j)' # {} \/ completed[j] > 0 \/ buried[j] > 0
    BY DEF PublishedNeverLost
  <2>1. CASE \E s \in Slots \ {cur} : job[s] = j
    BY <1>2, <2>1 DEF CopiesOf
  <2>2. CASE \A s \in Slots \ {cur} : job[s] # j
    BY <1>1, <2>2 DEF Safe, PublishedNeverLost, Branded, CopiesOf
  <2> QED
    BY <2>1, <2>2
<1>7. Ladder'
  BY <1>2 DEF Ladder, HonestHeaders, BuriedOnlyAfterAllRetries
<1> QED
  BY <1>3, <1>4, <1>5, <1>6, <1>7 DEF Safe

\* A fault takes the consumer down but leaves every copy with the broker.
LEMMA ConsumerFailsStep ==
    ASSUME Safe, Ladder, ConsumerFails
    PROVE  Safe' /\ Ladder'
<1> USE DEF ConsumerFails, publisher, history
<1>1. TypeOK' /\ TriesLeft'
  BY JobQueueAssumption DEF Safe, TypeOK, Places, Steps, TriesLeft
<1>2. \A t \in Slots : loc'[t] = "none" <=> loc[t] = "none"
  OBVIOUS
<1>3. SlotsConsistent'
  BY <1>2 DEF Safe, SlotsConsistent
<1>4. InHand' /\ PublishedNeverLost'
  BY DEF InHand, Busy, Safe, PublishedNeverLost, Branded, CopiesOf
<1>5. Ladder'
  BY <1>2 DEF Ladder, HonestHeaders, BuriedOnlyAfterAllRetries
<1> QED
  BY <1>1, <1>3, <1>4, <1>5 DEF Safe

----------------------------------------------------------------------------
(***************************************************************************)
(* The theorems.                                                           *)
(***************************************************************************)

\* Every step keeps the inductive invariants.
LEMMA NextSafe == Safe /\ Ladder /\ [Next]_vars => Safe' /\ Ladder'
<1> SUFFICES ASSUME Safe, Ladder, [Next]_vars PROVE Safe' /\ Ladder'
  OBVIOUS
<1>1. ASSUME NEW j \in Jobs, Publish(j) PROVE Safe' /\ Ladder'
  BY <1>1, PublishConfirmedStep, PublishUnconfirmedStep, PublishFailsStep DEF Publish
<1>2. ASSUME NEW j \in Jobs, ForeignMessage(j) PROVE Safe' /\ Ladder'
  BY <1>2, ForeignMessageStep
<1>3. CASE Start
  BY <1>3, StartStep
<1>4. CASE Process
  BY <1>4, DecideStep, NackToRetryStep, SendToDeadStep, AckStep DEF Process
<1>5. CASE ConsumerFails
  BY <1>5, ConsumerFailsStep
<1>6. ASSUME NEW s \in Slots, Take(s) \/ Broker(s) PROVE Safe' /\ Ladder'
  BY <1>6, TakeStep, BrokerStep
<1>7. CASE UNCHANGED vars
  BY <1>7 DEF vars, Safe, Ladder, TypeOK, TriesLeft, SlotsConsistent, InHand,
              PublishedNeverLost, Branded, CopiesOf, HonestHeaders, BuriedOnlyAfterAllRetries
<1> QED
  BY <1>1, <1>2, <1>3, <1>4, <1>5, <1>6, <1>7 DEF Next

\* The inductive invariants hold in every reachable state.
THEOREM QueueInvariant == Spec => [](Safe /\ Ladder)
<1> QED
  BY InitSafe, NextSafe, PTL DEF Spec

\* The queue's variables have their types: in particular the publisher never
\* counts beyond MAX_PUBLISH_ATTEMPTS and no header beyond len(RETRY_DELAYS).
THEOREM TypeCorrect == Spec => []TypeOK
<1>1. Safe => TypeOK
  BY DEF Safe
<1> QED
  BY QueueInvariant, <1>1, PTL

\* What publish() answered True for is never lost, whatever fails in between.
THEOREM NeverLost == Spec => []PublishedNeverLost
<1>1. Safe => PublishedNeverLost
  BY DEF Safe
<1> QED
  BY QueueInvariant, <1>1, PTL

\* No job that parses is given up before its handler failed on it
\* len(RETRY_DELAYS) + 1 times.
THEOREM NeverBuriedEarly == Spec => []BuriedOnlyAfterAllRetries
<1>1. Ladder => BuriedOnlyAfterAllRetries
  BY DEF Ladder
<1> QED
  BY QueueInvariant, <1>1, PTL

----------------------------------------------------------------------------
(***************************************************************************)
(* Refinement: every step of the queue is a step of JobDelivery, or none.  *)
(***************************************************************************)

Promised == {j \in Branded : pub[j] = "true"}
Pending == {j \in Branded : CopiesOf(j) # {}}
Completed == {j \in Branded : completed[j] > 0}
Buried == {j \in Branded : buried[j] > 0}
Abstract == <<Promised, Pending, Completed, Buried>>

\* Taking a slot makes its job pending, if it was not.  (What has no brand is not
\* part of the abstract view.)
LEMMA StoreAccepts ==
    ASSUME Safe, NEW j \in Jobs, NEW place \in {"main", "retry"}, NEW n \in 0..Retries,
           Store(j, place, n)
    PROVE  /\ j \in Branded => Pending' = Pending \cup {j}
           /\ j \notin Branded => Pending' = Pending
<1>1. PICK s \in Slots :
        /\ job[s] = NoJob /\ job'[s] = j
        /\ \A t \in Slots \ {s} : job'[t] = job[t]
  BY StoreEffect DEF Safe
<1> QED
  BY <1>1, JobQueueAssumption DEF Pending, Branded, CopiesOf

\* The publisher's steps are Promise, Accept or nothing.
LEMMA PublisherRefines ==
    ASSUME Safe, NEW j \in Jobs, Publish(j) \/ ForeignMessage(j)
    PROVE  [Delivery!Next]_Abstract
<1> USE DEF Delivery!Next, Delivery!Promise, Delivery!Accept, Abstract
<1>1. Completed' = Completed /\ Buried' = Buried
  BY DEF Publish, PublishConfirmed, PublishRefused, PublishUnconfirmed, PublishRaises,
         ForeignMessage, history, Completed, Buried
<1>2. CASE PublishConfirmed(j) \/ ForeignMessage(j)
  <2>1. Store(j, "main", 0)
    BY <1>2 DEF PublishConfirmed, ForeignMessage
  <2>2. pub' = [pub EXCEPT ![j] = "true"] /\ pub \in [Jobs -> PublishStates]
    BY <1>2 DEF PublishConfirmed, ForeignMessage, Safe, TypeOK
  <2>3. CASE j \in Branded
    <3>1. Pending' = Pending \cup {j}
      BY <2>1, <2>3, StoreAccepts, JobQueueAssumption
    <3>2. Promised' = Promised \cup {j}
      BY <2>2, <2>3 DEF Promised, Branded
    <3>3. Delivery!Promise(j)
      BY <1>1, <3>1, <3>2 DEF Promised, Pending, Completed, Buried
    <3> QED
      BY <2>3, <3>3
  <2>4. CASE j \notin Branded
    <3>1. Pending' = Pending
      BY <2>1, <2>4, StoreAccepts, JobQueueAssumption
    <3>2. Promised' = Promised
      BY <2>2, <2>4 DEF Promised, Branded
    <3> QED
      BY <1>1, <3>1, <3>2
  <2> QED
    BY <2>3, <2>4
<1>3. CASE PublishUnconfirmed(j)
  <2>1. j \in Branded
    BY <1>3, JobQueueAssumption DEF PublishUnconfirmed, Publishing, Branded
  <2>2. Pending' = Pending \cup {j}
    BY <1>3, <2>1, StoreAccepts, JobQueueAssumption DEF PublishUnconfirmed
  <2>3. Promised' = Promised
    BY <1>3 DEF PublishUnconfirmed, Publishing, CountFailedTry, Promised, Branded, Safe, TypeOK
  <2>4. Delivery!Accept(j)
    BY <1>1, <2>2, <2>3 DEF Promised, Pending, Completed, Buried
  <2> QED
    BY <2>1, <2>4
<1>4. CASE PublishRefused(j) \/ PublishRaises(j)
  <2>1. Pending' = Pending
    BY <1>4 DEF PublishRefused, PublishRaises, broker, Pending, CopiesOf
  <2>2. Promised' = Promised
    BY <1>4 DEF PublishRefused, PublishRaises, Publishing, CountFailedTry, Promised, Branded,
                Safe, TypeOK
  <2> QED
    BY <1>1, <2>1, <2>2
<1> QED
  BY <1>2, <1>3, <1>4 DEF Publish

\* The consumer's steps are Complete, Bury, Forget or nothing.
LEMMA ConsumerRefines ==
    ASSUME Safe, Ladder, Process
    PROVE  [Delivery!Next]_Abstract
<1> USE DEF Delivery!Next, Delivery!Complete, Delivery!Bury, Delivery!Forget, Delivery!Settled,
            Abstract
<1>1. cur \in Slots /\ job[cur] \in Jobs
  BY DEF Process, Decide, HandlerSucceeds, HandlerFails, NackToRetry, SendToDead, Ack,
         Safe, InHand, Busy
<1>2. Promised' = Promised
  BY DEF Process, Decide, HandlerSucceeds, HandlerFails, NackToRetry, SendToDead, Ack,
         publisher, Promised
<1>3. job[cur] \in Branded => job[cur] \in Pending
  BY <1>1 DEF Pending, CopiesOf
<1>4. CASE HandlerSucceeds
  <2>1. Pending' = Pending /\ Buried' = Buried
    BY <1>4 DEF HandlerSucceeds, broker, Pending, CopiesOf, Buried
  <2>2. completed' = [completed EXCEPT ![job[cur]] = @ + 1] /\ completed \in [Jobs -> Nat]
    BY <1>4 DEF HandlerSucceeds, Safe, TypeOK
  <2>3. CASE job[cur] \in Branded
    <3>1. Completed' = Completed \cup {job[cur]}
      BY <1>1, <2>2, <2>3 DEF Completed, Branded
    <3>2. Delivery!Complete(job[cur])
      BY <1>2, <1>3, <2>1, <2>3, <3>1 DEF Promised, Pending, Completed, Buried
    <3> QED
      BY <2>3, <3>2
  <2>4. CASE job[cur] \notin Branded
    BY <1>2, <2>1, <2>2, <2>4 DEF Completed, Branded
  <2> QED
    BY <2>3, <2>4
<1>5. CASE HandlerFails
  BY <1>2, <1>5 DEF HandlerFails, broker, Completed, Pending, CopiesOf, Buried
<1>6. CASE NackToRetry
  <2>1. attempt[cur] + 1 \in 0..Retries /\ Store(job[cur], "retry", attempt[cur] + 1)
    BY <1>1, <1>6, JobQueueAssumption
    DEF NackToRetry, Incremented, Header, RetryQueues, Safe, InHand, TypeOK
  <2>2. Pending' = Pending
    BY <1>1, <1>3, <2>1, StoreAccepts
  <2> QED
    BY <1>2, <1>6, <2>2 DEF NackToRetry, history, Completed, Buried
<1>7. CASE SendToDead
  <2>1. Pending' = Pending /\ Completed' = Completed
    BY <1>7 DEF SendToDead, broker, Pending, CopiesOf, Completed
  <2>2. CASE job[cur] \in Branded
    <3>1. buried' = [buried EXCEPT ![job[cur]] = @ + 1] /\ buried \in [Jobs -> Nat]
      BY <1>7, <2>2 DEF SendToDead, Branded, Safe, TypeOK
    <3>2. Buried' = Buried \cup {job[cur]}
      BY <1>1, <2>2, <3>1 DEF Buried, Branded
    <3>3. Delivery!Bury(job[cur])
      BY <1>2, <1>3, <2>1, <2>2, <3>2 DEF Promised, Pending, Completed, Buried
    <3> QED
      BY <2>2, <3>3
  <2>3. CASE job[cur] \notin Branded
    BY <1>1, <1>2, <1>7, <2>1, <2>3 DEF SendToDead, Buried, Branded
  <2> QED
    BY <2>2, <2>3
<1>8. CASE Ack
  <2>1. Completed' = Completed /\ Buried' = Buried
    BY <1>8 DEF Ack, history, Completed, Buried
  <2>2. job' = [job EXCEPT ![cur] = NoJob] /\ job \in [Slots -> Jobs \cup {NoJob}]
    BY <1>8 DEF Ack, Safe, TypeOK
  <2>3. CASE job[cur] \notin Branded \/ \E s \in Slots \ {cur} : job[s] = job[cur]
    <3>1. Pending' = Pending
      BY <1>1, <2>2, <2>3, JobQueueAssumption DEF Pending, CopiesOf, Branded
    <3> QED
      BY <1>2, <2>1, <3>1
  <2>4. CASE job[cur] \in Branded /\ \A s \in Slots \ {cur} : job[s] # job[cur]
    <3>1. Pending' = Pending \ {job[cur]}
      BY <1>1, <2>2, <2>4, JobQueueAssumption DEF Pending, CopiesOf, Branded
    <3>2. job[cur] \in Completed \cup Buried
      BY <1>1, <1>8, <2>4 DEF Ack, Safe, InHand, Completed, Buried, Branded
    <3>3. Delivery!Forget(job[cur])
      BY <1>2, <1>3, <2>1, <2>4, <3>1, <3>2 DEF Promised, Pending, Completed, Buried
    <3> QED
      BY <2>4, <3>3
  <2> QED
    BY <2>3, <2>4
<1> QED
  BY <1>4, <1>5, <1>6, <1>7, <1>8 DEF Process, Decide

\* The other steps move or deliver copies, which the abstract view does not see.
LEMMA OthersRefine ==
    ASSUME Start \/ ConsumerFails \/ (\E s \in Slots : Take(s) \/ Broker(s)) \/ UNCHANGED vars
    PROVE  UNCHANGED Abstract
<1>1. UNCHANGED <<job, pub, completed, buried>>
  BY DEF Start, ConsumerFails, Take, Broker, Deliver, Requeue, RetryExpires, vars,
         broker, publisher, history
<1> QED
  BY <1>1 DEF Abstract, Promised, Pending, CopiesOf, Completed, Buried

\* The queue implements JobDelivery, but for its liveness, which TLC checks.
THEOREM QueueRefinesDelivery == Spec => Delivery!Init /\ [][Delivery!Next]_(Delivery!vars)
<1>1. Init => Delivery!Init
  BY JobQueueAssumption DEF Init, Delivery!Init, CopiesOf, Branded
<1>2. Safe /\ Ladder /\ [Next]_vars => [Delivery!Next]_(Delivery!vars)
  <2> SUFFICES ASSUME Safe, Ladder, [Next]_vars PROVE [Delivery!Next]_(Delivery!vars)
    OBVIOUS
  <2>1. [Delivery!Next]_Abstract
    BY PublisherRefines, ConsumerRefines, OthersRefine DEF Next
  <2> QED
    BY <2>1 DEF Abstract, Promised, Pending, Completed, Buried, Delivery!vars
<1> QED
  BY <1>1, <1>2, QueueInvariant, PTL DEF Spec


----------------------------------------------------------------------------
(***************************************************************************)
(* Duplicates and their faults.                                            *)
(***************************************************************************)

\* A job may be worked on once for a publish() that answered True (or for the message
\* that somebody else made of it), and once more for each fault.
Tokens(j) == (IF pub[j] = "true" THEN 1 ELSE 0) + faults

\* The failing handler calls that the open copies of a job may still get: a copy of
\* attempt n has Retries + 1 - n rungs of the ladder ahead of it.
Rungs(j) ==
    {r \in Slots \X (1..(Retries + 1)) :
        /\ job[r[1]] = j
        /\ r[2] > attempt[r[1]]
        /\ r[1] = cur /\ pc \in {"retrying", "burying"} => r[2] > attempt[r[1]] + 1
        /\ ~(r[1] = cur /\ pc = "acking")}

\* Verdicts and open copies, and failures and rungs, never exceed what the tokens pay
\* for.  This is what makes DuplicatesNeedFaults inductive.
Within(j) ==
    /\ IsFiniteSet(Open(j)) /\ IsFiniteSet(Rungs(j))
    /\ Cardinality(Open(j)) + completed[j] + buried[j] <= Tokens(j)
    /\ Cardinality(Rungs(j)) + fails[j] <= (Retries + 1) * Tokens(j)

Budget == \A j \in Jobs : Within(j)

LEMMA TokenTypes ==
  ASSUME TypeOK, NEW j \in Jobs
  PROVE  Tokens(j) \in Nat /\ Tokens(j) <= 1 + faults /\ faults \in Nat
  BY JobQueueAssumption DEF TypeOK, Tokens

LEMMA Distributes ==
  ASSUME NEW a \in Nat, NEW b \in Nat
  PROVE  (a + 1) * (b + 1) = (a + 1) * b + (a + 1) /\ (a + 1) * b \in Nat
  OBVIOUS

LEMMA Monotone ==
  ASSUME NEW a \in Nat, NEW b \in Nat, NEW c \in Nat, b <= c
  PROVE  (a + 1) * b <= (a + 1) * c
  OBVIOUS

LEMMA AtMostUnion ==
  ASSUME NEW S, NEW X, NEW T, IsFiniteSet(S), IsFiniteSet(X), T \subseteq S \cup X
  PROVE  /\ IsFiniteSet(T) /\ Cardinality(T) \in Nat
         /\ Cardinality(S) \in Nat /\ Cardinality(X) \in Nat
         /\ Cardinality(T) <= Cardinality(S) + Cardinality(X)
<1>1. /\ IsFiniteSet(S \cup X)
      /\ Cardinality(S \cup X) = Cardinality(S) + Cardinality(X) - Cardinality(S \cap X)
  BY FS_Union
<1>2. IsFiniteSet(T) /\ Cardinality(T) <= Cardinality(S \cup X)
  BY <1>1, FS_Subset
<1>3. IsFiniteSet(S \cap X)
  BY FS_Intersection
<1>4. /\ Cardinality(T) \in Nat /\ Cardinality(S) \in Nat /\ Cardinality(X) \in Nat
      /\ Cardinality(S \cap X) \in Nat
  BY <1>2, <1>3, FS_CardinalityType
<1> QED
  BY <1>1, <1>2, <1>4

\* The rungs of one copy from one attempt on.
LEMMA OneLadder ==
  ASSUME NEW s, NEW n \in Nat, NEW m \in Nat, n <= m + 1
  PROVE  IsFiniteSet({s} \X (n..m)) /\ Cardinality({s} \X (n..m)) = m + 1 - n
<1>1. IsFiniteSet({s}) /\ Cardinality({s}) = 1
  BY FS_Singleton
<1>2. IsFiniteSet(n..m) /\ Cardinality(n..m) = m + 1 - n
  <2>1. IsFiniteSet(n..m) /\ Cardinality(n..m) = IF n > m THEN 0 ELSE m - n + 1
    BY FS_Interval
  <2> QED
    BY <2>1
<1>3. /\ IsFiniteSet({s} \X (n..m))
      /\ Cardinality({s} \X (n..m)) = Cardinality({s}) * Cardinality(n..m)
  BY <1>1, <1>2, FS_Product
<1> QED
  BY <1>1, <1>2, <1>3

\* A step that opens nothing of a job.
LEMMA NothingOpened ==
  ASSUME TypeOK, TypeOK', Budget, NEW j \in Jobs,
         Open(j)' \subseteq Open(j), Rungs(j)' \subseteq Rungs(j), Tokens(j) <= Tokens(j)',
         completed'[j] = completed[j], buried'[j] = buried[j], fails'[j] = fails[j]
  PROVE  Within(j)'
<1>1. /\ IsFiniteSet(Open(j)) /\ IsFiniteSet(Rungs(j))
      /\ Cardinality(Open(j)) + completed[j] + buried[j] <= Tokens(j)
      /\ Cardinality(Rungs(j)) + fails[j] <= (Retries + 1) * Tokens(j)
  BY DEF Budget, Within
<1>2. /\ IsFiniteSet(Open(j)') /\ Cardinality(Open(j)') <= Cardinality(Open(j))
      /\ IsFiniteSet(Rungs(j)') /\ Cardinality(Rungs(j)') <= Cardinality(Rungs(j))
  BY <1>1, FS_Subset
<1>3. /\ Cardinality(Open(j)) \in Nat /\ Cardinality(Open(j)') \in Nat
      /\ Cardinality(Rungs(j)) \in Nat /\ Cardinality(Rungs(j)') \in Nat
  BY <1>1, <1>2, FS_CardinalityType
<1>4. Tokens(j) \in Nat /\ Tokens(j)' \in Nat
  <2>1. faults \in Nat /\ faults' \in Nat
    BY JobQueueAssumption DEF TypeOK
  <2>2. \A x \in {pub[j], pub'[j]} : \A f \in Nat : (IF x = "true" THEN 1 ELSE 0) + f \in Nat
    OBVIOUS
  <2> QED
    BY <2>1, <2>2 DEF Tokens
<1>5. completed[j] \in Nat /\ buried[j] \in Nat /\ fails[j] \in Nat /\ Retries \in Nat
  BY JobQueueAssumption DEF TypeOK
<1>6. (Retries + 1) * Tokens(j) <= (Retries + 1) * Tokens(j)'
  BY <1>4, <1>5, Monotone
<1>7. Cardinality(Open(j)') + completed'[j] + buried'[j] <= Tokens(j)'
  BY <1>1, <1>2, <1>3, <1>4, <1>5
<1>8. Cardinality(Rungs(j)') + fails'[j] <= (Retries + 1) * Tokens(j)'
  <2> DEFINE a == (Retries + 1) * Tokens(j)
             b == (Retries + 1) * Tokens(j)'
  <2>1. a \in Nat /\ b \in Nat
    BY <1>4, <1>5, Distributes
  <2>2. Cardinality(Rungs(j)) + fails[j] <= a /\ a <= b
    BY <1>1, <1>6
  <2> HIDE DEF a, b
  <2>3. Cardinality(Rungs(j)') + fails'[j] <= b
    BY <1>2, <1>3, <1>5, <2>1, <2>2
  <2> QED
    BY <2>3 DEF b
<1> QED
  BY <1>2, <1>7, <1>8 DEF Within

\* A step that opens one copy, and has a token to show for it.
LEMMA TokenSpent ==
  ASSUME TypeOK, Budget, NEW j \in Jobs, NEW s,
         Open(j)' \subseteq Open(j) \cup {s},
         Rungs(j)' \subseteq Rungs(j) \cup ({s} \X (1..(Retries + 1))),
         Tokens(j)' = Tokens(j) + 1,
         completed'[j] = completed[j], buried'[j] = buried[j], fails'[j] = fails[j]
  PROVE  Within(j)'
<1> DEFINE ladder == {s} \X (1..(Retries + 1))
           o == Cardinality(Open(j))
           r == Cardinality(Rungs(j))
<1>1. /\ IsFiniteSet(Open(j)) /\ IsFiniteSet(Rungs(j))
      /\ o + completed[j] + buried[j] <= Tokens(j)
      /\ r + fails[j] <= (Retries + 1) * Tokens(j)
  BY DEF Budget, Within
<1>2. completed[j] \in Nat /\ buried[j] \in Nat /\ fails[j] \in Nat /\ Retries \in Nat
      /\ Tokens(j) \in Nat
  BY TokenTypes, JobQueueAssumption DEF TypeOK
<1>3. /\ IsFiniteSet(Open(j)') /\ Cardinality(Open(j)') \in Nat /\ o \in Nat
      /\ Cardinality(Open(j)') <= o + 1
  <2>1. IsFiniteSet({s}) /\ Cardinality({s}) = 1
    BY FS_Singleton
  <2> QED
    BY <1>1, <2>1, AtMostUnion
<1>4. /\ IsFiniteSet(Rungs(j)') /\ Cardinality(Rungs(j)') \in Nat /\ r \in Nat
      /\ Cardinality(Rungs(j)') <= r + (Retries + 1)
  <2>1. IsFiniteSet(ladder) /\ Cardinality(ladder) = Retries + 1
    <3>1. 1 \in Nat /\ Retries + 1 \in Nat /\ 1 <= (Retries + 1) + 1
      BY <1>2
    <3>2. /\ IsFiniteSet({s} \X (1..(Retries + 1)))
          /\ Cardinality({s} \X (1..(Retries + 1))) = (Retries + 1) + 1 - 1
      BY <3>1, OneLadder, Zenon
    <3> QED
      BY <1>2, <3>2
  <2> QED
    BY <1>1, <2>1, AtMostUnion
<1>5. (Retries + 1) * Tokens(j)' = (Retries + 1) * Tokens(j) + (Retries + 1)
      /\ (Retries + 1) * Tokens(j) \in Nat
  BY <1>2, Distributes
<1> HIDE DEF ladder, o, r
<1>6. Cardinality(Open(j)') + completed'[j] + buried'[j] <= Tokens(j)'
  BY <1>1, <1>2, <1>3
<1>7. Cardinality(Rungs(j)') + fails'[j] <= (Retries + 1) * Tokens(j)'
  <2> DEFINE x == (Retries + 1) * Tokens(j)
             y == (Retries + 1) * Tokens(j)'
             z == Cardinality(Rungs(j)')
  <2>1. r + fails[j] <= x /\ y = x + (Retries + 1) /\ x \in Nat /\ z \in Nat /\ r \in Nat
        /\ z <= r + (Retries + 1)
    BY <1>1, <1>4, <1>5
  <2> HIDE DEF x, y, z
  <2>2. z + fails'[j] <= y
    BY <1>2, <2>1
  <2> QED
    BY <2>2 DEF y, z
<1> QED
  BY <1>3, <1>4, <1>6, <1>7 DEF Within

\* The copy in hand is settled: its one verdict takes its place.
LEMMA HandSettled ==
  ASSUME TypeOK, Budget, NEW j \in Jobs, cur \in Open(j),
         Open(j)' \subseteq Open(j) \ {cur}, Rungs(j)' \subseteq Rungs(j),
         Tokens(j)' = Tokens(j), fails'[j] = fails[j],
         completed'[j] \in Nat, buried'[j] \in Nat,
         completed'[j] + buried'[j] <= completed[j] + buried[j] + 1
  PROVE  Within(j)'
<1>1. /\ IsFiniteSet(Open(j)) /\ IsFiniteSet(Rungs(j))
      /\ Cardinality(Open(j)) + completed[j] + buried[j] <= Tokens(j)
      /\ Cardinality(Rungs(j)) + fails[j] <= (Retries + 1) * Tokens(j)
  BY DEF Budget, Within
<1>2. IsFiniteSet(Open(j) \ {cur}) /\ Cardinality(Open(j) \ {cur}) = Cardinality(Open(j)) - 1
  BY <1>1, FS_RemoveElement
<1>3. /\ IsFiniteSet(Open(j)') /\ Cardinality(Open(j)') <= Cardinality(Open(j) \ {cur})
      /\ IsFiniteSet(Rungs(j)') /\ Cardinality(Rungs(j)') <= Cardinality(Rungs(j))
  BY <1>1, <1>2, FS_Subset
<1>4. /\ Cardinality(Open(j)) \in Nat /\ Cardinality(Open(j)') \in Nat
      /\ Cardinality(Rungs(j)) \in Nat /\ Cardinality(Rungs(j)') \in Nat
  BY <1>1, <1>3, FS_CardinalityType
<1>5. completed[j] \in Nat /\ buried[j] \in Nat /\ fails[j] \in Nat /\ Tokens(j) \in Nat
  BY TokenTypes DEF TypeOK
<1>6. Cardinality(Open(j)') + completed'[j] + buried'[j] <= Tokens(j)'
  BY <1>1, <1>2, <1>3, <1>4, <1>5
<1>7. Cardinality(Rungs(j)') + fails'[j] <= (Retries + 1) * Tokens(j)'
  <2> DEFINE x == (Retries + 1) * Tokens(j)
  <2>1. Cardinality(Rungs(j)) + fails[j] <= x /\ x \in Nat
    <3>1. Retries \in Nat
      BY JobQueueAssumption
    <3> QED
      BY <1>1, <1>5, <3>1, Distributes
  <2> HIDE DEF x
  <2>2. Cardinality(Rungs(j)') + fails'[j] <= x
    BY <1>3, <1>4, <1>5, <2>1
  <2> QED
    BY <2>2 DEF x
<1> QED
  BY <1>3, <1>6, <1>7 DEF Within

\* A step that leaves the copies, the verdicts and the failures alone.
LEMMA NothingSpent ==
  ASSUME TypeOK, TypeOK', Budget, NEW j \in Jobs, UNCHANGED <<job, attempt, history>>,
         Tokens(j) <= Tokens(j)',
         UNCHANGED <<pc, cur>> \/ (pc \notin {"retrying", "burying", "acking"})
  PROVE  Within(j)'
<1>1. Open(j)' \subseteq Open(j)
  BY DEF Open, CopiesOf
<1>2. Rungs(j)' \subseteq Rungs(j)
  BY DEF Rungs
<1> QED
  BY <1>1, <1>2, NothingOpened DEF history

\* A failing call takes the next rung of the copy in hand.
LEMMA FailurePaid ==
  ASSUME Safe, TypeOK', Budget, NEW j \in Jobs, HandlerFails
  PROVE  Within(j)'
<1> USE DEF HandlerFails, broker, publisher
<1>0. /\ TypeOK /\ cur \in Slots /\ job[cur] \in Jobs /\ attempt[cur] \in 0..Retries
      /\ Retries \in Nat /\ pc' \in {"burying", "retrying"}
  BY JobQueueAssumption DEF Safe, InHand, Busy, TypeOK
<1>1. Open(j)' = Open(j)
  BY <1>0 DEF Open, CopiesOf
<1>2. Rungs(j)' \subseteq Rungs(j)
  BY DEF Rungs
<1>3. Tokens(j)' = Tokens(j) /\ Tokens(j) \in Nat
  BY <1>0, TokenTypes DEF Tokens
<1>4. CASE j # job[cur]
  <2>1. fails'[j] = fails[j]
    BY <1>0, <1>4 DEF TypeOK
  <2> QED
    BY <1>0, <1>1, <1>2, <1>3, <2>1, NothingOpened
<1>5. CASE j = job[cur]
  <2> DEFINE rung == <<cur, attempt[cur] + 1>>
  <2>1. rung \in Rungs(j)
    BY <1>0, <1>5 DEF Rungs
  <2>2. rung \notin Rungs(j)'
    BY <1>0 DEF Rungs
  <2>3. Rungs(j)' \subseteq Rungs(j) \ {rung}
    BY <1>2, <2>2
  <2> HIDE DEF rung
  <2>4. IsFiniteSet(Rungs(j)) /\ Cardinality(Rungs(j)) + fails[j] <= (Retries + 1) * Tokens(j)
    BY DEF Budget, Within
  <2>5. /\ IsFiniteSet(Rungs(j) \ {rung})
        /\ Cardinality(Rungs(j) \ {rung}) = Cardinality(Rungs(j)) - 1
    BY <2>1, <2>4, FS_RemoveElement
  <2>6. /\ IsFiniteSet(Rungs(j)')
        /\ Cardinality(Rungs(j)') <= Cardinality(Rungs(j) \ {rung})
    BY <2>3, <2>5, FS_Subset
  <2>7. Cardinality(Rungs(j)) \in Nat /\ Cardinality(Rungs(j)') \in Nat
    BY <2>4, <2>6, FS_CardinalityType
  <2>8. fails[j] \in Nat /\ fails'[j] = fails[j] + 1
    BY <1>0, <1>5 DEF TypeOK
  <2>9. Cardinality(Rungs(j)') + fails'[j] <= (Retries + 1) * Tokens(j)
    <3> DEFINE x == (Retries + 1) * Tokens(j)
    <3>1. Cardinality(Rungs(j)) + fails[j] <= x /\ x \in Nat
      BY <1>0, <1>3, <2>4, Distributes
    <3> HIDE DEF x
    <3>2. Cardinality(Rungs(j)') + fails'[j] <= x
      BY <2>5, <2>6, <2>7, <2>8, <3>1
    <3> QED
      BY <3>2 DEF x
  <2>10. IsFiniteSet(Open(j)') /\ Cardinality(Open(j)') + completed'[j] + buried'[j] <= Tokens(j)'
    BY <1>1, <1>3 DEF Budget, Within
  <2> QED
    BY <1>3, <2>6, <2>9, <2>10 DEF Within
<1> QED
  BY <1>4, <1>5

\* The copy that goes to the retry queue has the rungs that were left to the one in
\* hand, which leaves its place to it.
LEMMA RetryPaid ==
  ASSUME Safe, TypeOK', Budget, NEW j \in Jobs, NackToRetry
  PROVE  Within(j)'
<1> USE DEF NackToRetry, publisher, history
<1>0. /\ TypeOK /\ TypeOK' /\ cur \in Slots /\ job[cur] \in Jobs /\ attempt[cur] \in 0..Retries
      /\ Retries \in Nat /\ attempt[cur] + 1 <= Retries /\ loc[cur] = "unacked" /\ pc' = "acking"
  BY JobQueueAssumption DEF Safe, InHand, Busy, TypeOK
<1>1. PICK s \in Slots :
        /\ loc[s] = "none" /\ job[s] = NoJob
        /\ job'[s] = job[cur] /\ attempt'[s] = attempt[cur] + 1
        /\ \A t \in Slots \ {s} : job'[t] = job[t] /\ attempt'[t] = attempt[t]
  <2>1. attempt[cur] + 1 \in 0..Retries /\ Store(job[cur], "retry", attempt[cur] + 1)
    BY <1>0 DEF Incremented, Header, RetryQueues
  <2> QED
    BY <1>0, <2>1, StoreEffect DEF Safe
<1>2. s # cur /\ job'[cur] = job[cur] /\ NoJob \notin Jobs
  BY <1>0, <1>1, JobQueueAssumption
<1>3. Tokens(j)' = Tokens(j) /\ Tokens(j) \in Nat
  BY <1>0, TokenTypes DEF Tokens
<1>4. CASE j # job[cur]
  <2>1. Open(j)' \subseteq Open(j) /\ Rungs(j)' \subseteq Rungs(j)
    <3>1. Open(j)' \subseteq Open(j)
      BY <1>1, <1>2, <1>4 DEF Open, CopiesOf
    <3>2. Rungs(j)' \subseteq Rungs(j)
      BY <1>1, <1>2, <1>4 DEF Rungs
    <3> QED
      BY <3>1, <3>2
  <2> QED
    BY <1>0, <1>3, <2>1, NothingOpened
<1>5. CASE j = job[cur]
  <2> DEFINE n == attempt[cur] + 2
             m == Retries + 1
             C == {cur} \X (n..m)
             N == {s} \X (n..m)
  <2>1. IsFiniteSet(C) /\ IsFiniteSet(N) /\ Cardinality(C) = Cardinality(N)
    <3>1. n \in Nat /\ m \in Nat /\ n <= m + 1
      BY <1>0
    <3> HIDE DEF n, m
    <3>2. IsFiniteSet(C) /\ Cardinality(C) = m + 1 - n
      BY <3>1, OneLadder
    <3>3. IsFiniteSet(N) /\ Cardinality(N) = m + 1 - n
      BY <3>1, OneLadder
    <3> QED
      BY <3>2, <3>3
  <2>2. C \subseteq Rungs(j)
    BY <1>0, <1>5 DEF Rungs
  <2>3. Rungs(j)' \subseteq (Rungs(j) \ C) \cup N
    BY <1>0, <1>1, <1>2 DEF Rungs
  <2>4. cur \in Open(j) /\ Open(j)' \subseteq (Open(j) \ {cur}) \cup {s}
    BY <1>0, <1>1, <1>2, <1>5 DEF Open, CopiesOf
  <2> HIDE DEF C, N
  <2>5. /\ IsFiniteSet(Open(j)) /\ IsFiniteSet(Rungs(j))
        /\ Cardinality(Open(j)) + completed[j] + buried[j] <= Tokens(j)
        /\ Cardinality(Rungs(j)) + fails[j] <= (Retries + 1) * Tokens(j)
    BY DEF Budget, Within
  <2>6. IsFiniteSet(Open(j)') /\ Cardinality(Open(j)') <= Cardinality(Open(j))
    <3>1. /\ IsFiniteSet(Open(j) \ {cur})
          /\ Cardinality(Open(j) \ {cur}) = Cardinality(Open(j)) - 1
      BY <2>4, <2>5, FS_RemoveElement
    <3>2. IsFiniteSet({s}) /\ Cardinality({s}) = 1
      BY FS_Singleton
    <3>3. /\ IsFiniteSet(Open(j)')
          /\ Cardinality(Open(j)') <= Cardinality(Open(j) \ {cur}) + Cardinality({s})
      BY <2>4, <3>1, <3>2, AtMostUnion
    <3>4. Cardinality(Open(j)) \in Nat
      BY <2>5, FS_CardinalityType
    <3> QED
      BY <3>1, <3>2, <3>3, <3>4
  <2>7. IsFiniteSet(Rungs(j)') /\ Cardinality(Rungs(j)') <= Cardinality(Rungs(j))
    <3>1. /\ IsFiniteSet(Rungs(j) \ C)
          /\ Cardinality(Rungs(j) \ C) = Cardinality(Rungs(j)) - Cardinality(Rungs(j) \cap C)
      BY <2>5, FS_Difference
    <3>2. Rungs(j) \cap C = C
      BY <2>2
    <3>3. /\ IsFiniteSet(Rungs(j)')
          /\ Cardinality(Rungs(j)') <= Cardinality(Rungs(j) \ C) + Cardinality(N)
      BY <2>1, <2>3, <3>1, AtMostUnion
    <3>4. Cardinality(Rungs(j)) \in Nat /\ Cardinality(C) \in Nat
      BY <2>1, <2>5, FS_CardinalityType
    <3> QED
      BY <2>1, <3>1, <3>2, <3>3, <3>4
  <2>8. /\ Cardinality(Open(j)) \in Nat /\ Cardinality(Open(j)') \in Nat
        /\ Cardinality(Rungs(j)) \in Nat /\ Cardinality(Rungs(j)') \in Nat
    BY <2>5, <2>6, <2>7, FS_CardinalityType
  <2>9. completed[j] \in Nat /\ buried[j] \in Nat /\ fails[j] \in Nat
    BY <1>0 DEF TypeOK
  <2>10. Cardinality(Open(j)') + completed'[j] + buried'[j] <= Tokens(j)'
    BY <1>3, <2>5, <2>6, <2>8, <2>9
  <2>11. Cardinality(Rungs(j)') + fails'[j] <= (Retries + 1) * Tokens(j)
    <3> DEFINE x == (Retries + 1) * Tokens(j)
    <3>1. Cardinality(Rungs(j)) + fails[j] <= x /\ x \in Nat
      BY <1>0, <1>3, <2>5, Distributes
    <3> HIDE DEF x
    <3>2. Cardinality(Rungs(j)') + fails'[j] <= x
      BY <2>7, <2>8, <2>9, <3>1
    <3> QED
      BY <3>2 DEF x
  <2> QED
    BY <1>3, <2>6, <2>7, <2>10, <2>11 DEF Within
<1> QED
  BY <1>4, <1>5

\* A fresh copy of a job costs a token.
LEMMA CopyPaid ==
  ASSUME TypeOK, TypeOK', Budget, NEW j \in Jobs, NEW k \in Jobs, Stored(k),
         UNCHANGED <<pc, cur, history>>,
         Tokens(j)' = Tokens(j) \/ Tokens(j)' = Tokens(j) + 1,
         j = k => Tokens(j)' = Tokens(j) + 1
  PROVE  Within(j)'
<1>1. PICK s \in Slots :
        /\ loc[s] = "none" /\ job[s] = NoJob
        /\ job'[s] = k /\ attempt'[s] = 0
        /\ \A t \in Slots \ {s} : job'[t] = job[t] /\ attempt'[t] = attempt[t]
  BY DEF Stored
<1>2. /\ completed'[j] = completed[j] /\ buried'[j] = buried[j] /\ fails'[j] = fails[j]
      /\ Tokens(j) \in Nat
  BY TokenTypes DEF history
<1>3. /\ Open(j)' \subseteq Open(j) \cup {s}
      /\ j # k => s \notin Open(j)'
  BY <1>1 DEF Open, CopiesOf
<1>4. /\ Rungs(j)' \subseteq Rungs(j) \cup ({s} \X (1..(Retries + 1)))
      /\ j # k => Rungs(j)' \subseteq Rungs(j)
  BY <1>1 DEF Rungs
<1>5. CASE Tokens(j)' = Tokens(j) + 1
  BY <1>2, <1>3, <1>4, <1>5, TokenSpent
<1>6. CASE Tokens(j)' = Tokens(j) /\ j # k
  <2>1. Open(j)' \subseteq Open(j)
    BY <1>3, <1>6
  <2>2. Tokens(j) <= Tokens(j)'
    BY <1>2, <1>6
  <2> QED
    BY <1>2, <1>4, <1>6, <2>1, <2>2, NothingOpened
<1> QED
  BY <1>2, <1>5, <1>6

LEMMA PublisherPaid ==
  ASSUME Safe, TypeOK', Budget, NEW j \in Jobs, NEW k \in Jobs, Publish(k) \/ ForeignMessage(k)
  PROVE  Within(j)'
<1>0. /\ TypeOK /\ Tokens(j) \in Nat /\ faults \in Nat /\ pub \in [Jobs -> PublishStates]
  BY TokenTypes DEF Safe, TypeOK
<1>1. CASE PublishConfirmed(k) \/ ForeignMessage(k)
  <2>1. Stored(k)
    BY <1>1, StoreEffect, JobQueueAssumption DEF PublishConfirmed, ForeignMessage, Safe, Stored
  <2>2. pub' = [pub EXCEPT ![k] = "true"] /\ pub[k] # "true" /\ faults' = faults
    BY <1>1 DEF PublishConfirmed, ForeignMessage, Publishing
  <2>3. CASE j = k
    <3>1. Tokens(j) = faults /\ Tokens(j)' = 1 + faults
      BY <1>0, <2>2, <2>3 DEF Tokens
    <3> QED
      BY <1>0, <1>1, <2>1, <2>3, <3>1, CopyPaid
      DEF PublishConfirmed, ForeignMessage, consumer
  <2>4. CASE j # k
    <3>1. Tokens(j)' = Tokens(j)
      BY <1>0, <2>2, <2>4 DEF Tokens
    <3> QED
      BY <1>0, <1>1, <2>1, <2>4, <3>1, CopyPaid
      DEF PublishConfirmed, ForeignMessage, consumer
  <2> QED
    BY <2>3, <2>4
<1>2. CASE PublishUnconfirmed(k)
  <2>1. Stored(k)
    BY <1>2, StoreEffect, JobQueueAssumption DEF PublishUnconfirmed, Safe, Stored
  <2>2. faults' = faults + 1 /\ (pub'[j] = "true" <=> pub[j] = "true")
    BY <1>0, <1>2 DEF PublishUnconfirmed, Publishing, CountFailedTry
  <2>3. Tokens(j)' = Tokens(j) + 1
    BY <1>0, <2>2 DEF Tokens
  <2> QED
    BY <1>0, <1>2, <2>1, <2>3, CopyPaid DEF PublishUnconfirmed, consumer
<1>3. CASE PublishRefused(k) \/ PublishRaises(k)
  <2>1. faults' = faults /\ (pub'[j] = "true" <=> pub[j] = "true")
    BY <1>0, <1>3 DEF PublishRefused, PublishRaises, Publishing, CountFailedTry
  <2>2. Tokens(j)' = Tokens(j) /\ Tokens(j) <= Tokens(j)'
    BY <1>0, <2>1 DEF Tokens
  <2> QED
    BY <1>0, <1>3, <2>2, NothingSpent DEF PublishRefused, PublishRaises, broker, consumer
<1> QED
  BY <1>1, <1>2, <1>3 DEF Publish

\* The copy in hand gets its verdict, or its place in the dead queue.
LEMMA VerdictPaid ==
  ASSUME Safe, TypeOK', Budget, NEW j \in Jobs, HandlerSucceeds \/ SendToDead
  PROVE  Within(j)'
<1>0. /\ TypeOK /\ cur \in Slots /\ job[cur] \in Jobs /\ pc \in {"handling", "burying"}
      /\ pc' = "acking" /\ UNCHANGED <<job, attempt, pub, cur, fails, faults>>
  BY DEF HandlerSucceeds, SendToDead, Safe, InHand, Busy, broker, publisher
<1>1. Open(j)' \subseteq Open(j) \ {cur}
  BY <1>0 DEF Open, CopiesOf
<1>2. Rungs(j)' \subseteq Rungs(j)
  BY <1>0 DEF Rungs
<1>3. Tokens(j)' = Tokens(j) /\ Tokens(j) \in Nat
  BY <1>0, TokenTypes DEF Tokens
<1>4. /\ completed[j] \in Nat /\ buried[j] \in Nat /\ completed'[j] \in Nat /\ buried'[j] \in Nat
  BY <1>0 DEF TypeOK
<1>5. CASE j = job[cur]
  <2>1. cur \in Open(j)
    BY <1>0, <1>5 DEF Open, CopiesOf
  <2>2. completed'[j] + buried'[j] <= completed[j] + buried[j] + 1
    <3>1. CASE HandlerSucceeds
      <4>1. completed'[j] = completed[j] + 1 /\ buried'[j] = buried[j]
        BY <1>0, <1>5, <3>1 DEF HandlerSucceeds, TypeOK
      <4> QED
        BY <1>4, <4>1
    <3>2. CASE SendToDead
      <4>1. completed'[j] = completed[j]
            /\ (buried'[j] = buried[j] \/ buried'[j] = buried[j] + 1)
        BY <1>0, <1>5, <3>2 DEF SendToDead, TypeOK
      <4> QED
        BY <1>4, <4>1
    <3> QED
      BY <3>1, <3>2
  <2> QED
    BY <1>0, <1>1, <1>2, <1>3, <1>4, <2>1, <2>2, HandSettled
<1>6. CASE j # job[cur]
  <2>1. completed'[j] = completed[j] /\ buried'[j] = buried[j]
    BY <1>0, <1>6 DEF HandlerSucceeds, SendToDead, TypeOK
  <2>2. Open(j)' \subseteq Open(j) /\ Tokens(j) <= Tokens(j)' /\ fails'[j] = fails[j]
    BY <1>0, <1>1, <1>3
  <2> QED
    BY <1>0, <1>2, <2>1, <2>2, NothingOpened
<1> QED
  BY <1>5, <1>6

LEMMA AckPaid ==
  ASSUME Safe, TypeOK', Budget, NEW j \in Jobs, Ack
  PROVE  Within(j)'
<1>0. /\ TypeOK /\ cur \in Slots /\ j # NoJob
      /\ job'[cur] = NoJob /\ \A t \in Slots \ {cur} : job'[t] = job[t] /\ attempt'[t] = attempt[t]
  BY JobQueueAssumption DEF Ack, Safe, InHand, Busy, TypeOK
<1>1. Open(j)' \subseteq Open(j)
  BY <1>0 DEF Ack, Open, CopiesOf
<1>2. Rungs(j)' \subseteq Rungs(j)
  BY <1>0 DEF Ack, Rungs
<1>3. Tokens(j)' = Tokens(j) /\ Tokens(j) \in Nat
  BY <1>0, TokenTypes DEF Ack, publisher, Tokens
<1>4. Tokens(j) <= Tokens(j)'
  BY <1>3
<1> QED
  BY <1>0, <1>1, <1>2, <1>4, NothingOpened DEF Ack, history

\* A crash opens the copy in hand again.
LEMMA CrashPaid ==
  ASSUME Safe, TypeOK', Budget, NEW j \in Jobs, ConsumerFails
  PROVE  Within(j)'
<1>0. TypeOK /\ Tokens(j) \in Nat /\ faults \in Nat
  BY TokenTypes DEF Safe
<1>1. Open(j)' \subseteq Open(j) \cup {cur}
  BY DEF ConsumerFails, Open, CopiesOf
<1>2. Rungs(j)' \subseteq Rungs(j) \cup ({cur} \X (1..(Retries + 1)))
  BY DEF ConsumerFails, Rungs
<1>3. Tokens(j)' = Tokens(j) + 1
  BY <1>0 DEF ConsumerFails, publisher, Tokens
<1> QED
  BY <1>0, <1>1, <1>2, <1>3, TokenSpent DEF ConsumerFails, history

LEMMA NextBudget == Safe /\ TypeOK' /\ Budget /\ [Next]_vars => Budget'
<1> SUFFICES ASSUME Safe, TypeOK', Budget, [Next]_vars, NEW j \in Jobs PROVE Within(j)'
  BY DEF Budget
<1>0. TypeOK /\ Tokens(j) \in Nat
  BY TokenTypes DEF Safe
<1>1. ASSUME NEW k \in Jobs, Publish(k) \/ ForeignMessage(k) PROVE Within(j)'
  BY <1>1, PublisherPaid
<1>2. CASE Process
  BY <1>2, FailurePaid, RetryPaid, VerdictPaid, AckPaid DEF Process, Decide
<1>3. CASE ConsumerFails
  BY <1>3, CrashPaid
<1>4. CASE Start \/ (\E s \in Slots : Take(s) \/ Broker(s)) \/ UNCHANGED vars
  <2>1. /\ UNCHANGED <<job, attempt, history, pub, faults>>
        /\ UNCHANGED <<pc, cur>> \/ (pc \notin {"retrying", "burying", "acking"})
    BY <1>4 DEF Start, Take, Broker, Deliver, Requeue, RetryExpires, vars, broker, publisher,
                consumer, history
  <2>2. Tokens(j)' = Tokens(j)
    BY <2>1 DEF Tokens
  <2>3. Tokens(j) <= Tokens(j)'
    BY <1>0, <2>2
  <2> QED
    BY <1>0, <2>1, <2>3, NothingSpent
<1> QED
  BY <1>1, <1>2, <1>3, <1>4 DEF Next

LEMMA InitBudget == Init => Budget
<1> SUFFICES ASSUME Init, NEW j \in Jobs PROVE Within(j)
  BY DEF Budget
<1>1. Open(j) = {} /\ Rungs(j) = {}
  BY JobQueueAssumption DEF Init, Open, CopiesOf, Rungs
<1>2. IsFiniteSet({}) /\ Cardinality({}) = 0
  BY FS_EmptySet
<1>3. Tokens(j) = 0 /\ completed[j] = 0 /\ buried[j] = 0 /\ fails[j] = 0
  BY DEF Init, Tokens
<1> QED
  BY <1>1, <1>2, <1>3, JobQueueAssumption DEF Within

\* Verdicts, open copies, failures and rungs are all paid for, for any number of jobs,
\* copies, retries and faults.
THEOREM BudgetHolds == Spec => []Budget
<1>1. Safe => TypeOK
  BY DEF Safe
<1> QED
  BY InitBudget, NextBudget, QueueInvariant, <1>1, PTL DEF Spec

\* No job is handled to the end more often than once and once per fault, and each fault
\* costs at most one more ladder of retries.
THEOREM FaultsExplainDuplicates == Spec => []DuplicatesNeedFaults
<1>1. TypeOK /\ Budget => DuplicatesNeedFaults
  <2> SUFFICES ASSUME TypeOK, Budget, NEW j \in Jobs
               PROVE  /\ Cardinality(Open(j)) + completed[j] + buried[j] <= 1 + faults
                      /\ fails[j] <= (Retries + 1) * (1 + faults)
    BY DEF DuplicatesNeedFaults
  <2>1. /\ IsFiniteSet(Open(j)) /\ IsFiniteSet(Rungs(j))
        /\ Cardinality(Open(j)) + completed[j] + buried[j] <= Tokens(j)
        /\ Cardinality(Rungs(j)) + fails[j] <= (Retries + 1) * Tokens(j)
    BY DEF Budget, Within
  <2>2. Cardinality(Open(j)) \in Nat /\ Cardinality(Rungs(j)) \in Nat
    BY <2>1, FS_CardinalityType
  <2>3. /\ completed[j] \in Nat /\ buried[j] \in Nat /\ fails[j] \in Nat /\ Retries \in Nat
        /\ Tokens(j) \in Nat /\ Tokens(j) <= 1 + faults /\ faults \in Nat
    BY TokenTypes, JobQueueAssumption DEF TypeOK
  <2> DEFINE x == (Retries + 1) * Tokens(j)
             y == (Retries + 1) * (1 + faults)
  <2>4. x <= y /\ x \in Nat /\ y \in Nat
    <3>1. 1 + faults \in Nat
      BY <2>3
    <3> QED
      BY <2>3, <3>1, Monotone, Distributes
  <2>5. Cardinality(Rungs(j)) + fails[j] <= x
    BY <2>1
  <2> HIDE DEF x, y
  <2>6. fails[j] <= y
    BY <2>2, <2>3, <2>4, <2>5
  <2>7. Cardinality(Open(j)) + completed[j] + buried[j] <= 1 + faults
    BY <2>1, <2>2, <2>3
  <2> QED
    BY <2>6, <2>7 DEF y
<1> QED
  BY <1>1, BudgetHolds, TypeCorrect, PTL

=============================================================================
