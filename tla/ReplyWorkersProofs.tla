------------------------- MODULE ReplyWorkersProofs -------------------------
(***************************************************************************)
(* For any follow-ups, texts, retries and faults: what our_posts, the      *)
(* attempts and the comments that Zendesk shows say of each other.         *)
(***************************************************************************)
EXTENDS ReplyWorkers, FiniteSetTheorems, TLAPS

\* A handler works on a job that the queue waits for, and a job that is not buried has a
\* retry left.
Working ==
    /\ \A w \in Workers : pc[w] # "idle" =>
            doing[w] \in Jobs /\ WorkerOf(doing[w]) = w /\ queue[doing[w]] = "pending"
    /\ \A j \in Jobs : queue[j] # "dead" => tries[j] <= Retries

\* The text that a handler has recorded is its own until its transaction ends.
Holding ==
    /\ \A w \in Workers : pc[w] \in {"posting", "posted"} =>
            body[w] \in Bodies /\ ourPosts[body[w]] = 0 /\ at[w] > 0
    /\ \A w \in Workers : pc[w] \notin {"posting", "posted"} => body[w] = NoBody
    /\ \A v, w \in Workers : v # w /\ body[v] # NoBody => body[v] # body[w]

Inv == TypeOK /\ Working /\ Holding /\ DuplicatesOnlyOfCommitted /\ PostsMatchAttempts

LEMMA Jobs1 ==
    /\ Initial \in Jobs /\ FollowUps \subseteq Jobs
    /\ WorkerOf(Initial) = "initial_reply"
    /\ \A c \in FollowUps : WorkerOf(c) = "followup_reply"
    /\ "initial_reply" \in Workers /\ "followup_reply" \in Workers
  BY ReplyWorkersAssumption DEF Jobs, WorkerOf, Workers

LEMMA InitInv == Init => Inv
<1> SUFFICES ASSUME Init PROVE Inv
  OBVIOUS
<1>1. 0 \in 0..MaxTime /\ clock \in 1..MaxTime /\ faults \in 0..MaxFaults /\ 0 \in 0..(Retries + 1)
  BY ReplyWorkersAssumption DEF Init
<1>2. /\ asked \in [Comments -> 0..MaxTime]
      /\ shown \in [Jobs \X Bodies -> Nat]
      /\ attempts \in [Jobs \X Outcomes \X Bodies -> Nat]
      /\ ourPosts \in [Bodies -> 0..MaxTime]
  BY <1>1 DEF Init
<1>3. /\ queue \in [Jobs -> {"none", "pending", "done", "dead"}]
      /\ tries \in [Jobs -> 0..(Retries + 1)]
  BY <1>1 DEF Init
<1>4. /\ pc \in [Workers -> Places]
      /\ doing \in [Workers -> Jobs \cup {NoJob}]
      /\ channel \in [Workers -> Channels]
      /\ todo \in [Workers -> SUBSET Comments]
      /\ text \in [Workers -> Bodies \cup {NoBody}]
      /\ body \in [Workers -> Bodies \cup {NoBody}]
      /\ at \in [Workers -> 0..MaxTime]
      /\ events \in [Workers -> SUBSET Comments]
  BY <1>1 DEF Init, Channels, Places
<1>5. TypeOK
  BY <1>1, <1>2, <1>3, <1>4 DEF TypeOK, Init
<1>6. Working /\ Holding
  BY ReplyWorkersAssumption DEF Init, Working, Holding
<1>7. DuplicatesOnlyOfCommitted /\ PostsMatchAttempts
  BY DEF Init, DuplicatesOnlyOfCommitted, PostsMatchAttempts, Outcomes
<1> QED
  BY <1>5, <1>6, <1>7 DEF Inv

-----------------------------------------------------------------------------
\* What no step of the environment or of the queue disturbs.
LEMMA RecordsUntouched ==
  ASSUME Inv, UNCHANGED <<ourPosts, attempts>>
  PROVE  DuplicatesOnlyOfCommitted' /\ PostsMatchAttempts'
  BY DEF Inv, DuplicatesOnlyOfCommitted, PostsMatchAttempts

LEMMA AnswerStep ==
  ASSUME Inv, NEW j \in Jobs, queue[j] = "pending", AnswersTrue(j) \/ AnswersFalse(j)
  PROVE  /\ queue' \in [Jobs -> {"none", "pending", "done", "dead"}]
         /\ tries' \in [Jobs -> 0..(Retries + 1)]
         /\ \A i \in Jobs : i # j => queue'[i] = queue[i]
         /\ \A i \in Jobs : queue'[i] # "dead" => tries'[i] <= Retries
<1>1. tries[j] <= Retries /\ tries[j] \in Nat /\ Retries \in Nat
  BY ReplyWorkersAssumption DEF Inv, Working, TypeOK
<1>2. CASE AnswersTrue(j)
  BY <1>2 DEF AnswersTrue, Inv, TypeOK, Working
<1>3. CASE AnswersFalse(j)
  <2>1. tries[j] + 1 \in 0..(Retries + 1)
    BY <1>1
  <2>2. \A i \in Jobs : /\ tries'[i] = (IF i = j THEN tries[j] + 1 ELSE tries[i])
                        /\ queue'[i] = (IF i = j THEN IF tries[j] >= Retries THEN "dead" ELSE "pending"
                                        ELSE queue[i])
    BY <1>3 DEF AnswersFalse, Inv, TypeOK
  <2>3. /\ queue' \in [Jobs -> {"none", "pending", "done", "dead"}]
        /\ tries' \in [Jobs -> 0..(Retries + 1)]
    BY <1>3, <2>1 DEF AnswersFalse, Inv, TypeOK
  <2> QED
    BY <1>1, <2>2, <2>3 DEF Inv, Working
<1> QED
  BY <1>2, <1>3

LEMMA EnvironmentStep ==
  ASSUME Inv, Environment
  PROVE  Inv'
<1>1. UNCHANGED <<ourPosts, attempts, pc, doing, channel, todo, text, body, at, events, shown,
                  firstShown, dismissed>>
  BY DEF Environment, Tick, TicketCloses, CommentIsPosted, PollerReaches, Poll, PollerInserts,
         PollerCommits, PollerRollsBack, Redeliver, handlers, zendesk, ticket
<1>2. Holding' /\ DuplicatesOnlyOfCommitted' /\ PostsMatchAttempts'
  BY <1>1, RecordsUntouched DEF Inv, Holding
<1>3. CASE Tick \/ TicketCloses
  <2>1. clock' \in 1..MaxTime /\ observing' \in BOOLEAN
    <3>1. clock \in 1..MaxTime /\ observing \in BOOLEAN /\ MaxTime \in Nat
      BY ReplyWorkersAssumption DEF Inv, TypeOK
    <3>2. CASE Tick
      BY <3>1, <3>2 DEF Tick
    <3>3. CASE TicketCloses
      BY <3>1, <3>3 DEF TicketCloses
    <3> QED
      BY <1>3, <3>2, <3>3
  <2>2. UNCHANGED <<asked, stored, recording, inserting, queue, tries, faults>>
    BY <1>3 DEF Tick, TicketCloses
  <2> QED
    BY <1>1, <1>2, <2>1, <2>2 DEF Inv, TypeOK, Working
<1>4. ASSUME NEW c \in Comments, CommentIsPosted(c)
      PROVE  Inv'
  <2>1. clock \in 0..MaxTime
    BY DEF Inv, TypeOK
  <2>2. asked' \in [Comments -> 0..MaxTime]
    BY <1>4, <2>1 DEF CommentIsPosted, Inv, TypeOK
  <2> QED
    BY <1>1, <1>2, <1>4, <2>2 DEF CommentIsPosted, Inv, TypeOK, Working
<1>5. ASSUME NEW c \in Comments, PollerReaches(c)
      PROVE  Inv'
  BY <1>1, <1>2, <1>5 DEF PollerReaches, Inv, TypeOK, Working
<1>6. ASSUME NEW c \in Comments, PollerInserts(c)
      PROVE  Inv'
  <2>1. 0 \in 0..(Retries + 1) /\ 0 <= Retries
    BY ReplyWorkersAssumption
  <2>2. /\ queue' \in [Jobs -> {"none", "pending", "done", "dead"}]
        /\ tries' \in [Jobs -> 0..(Retries + 1)]
        /\ \A j \in Jobs :
              \/ queue'[j] = queue[j] /\ tries'[j] = tries[j]
              \/ queue'[j] = "pending" /\ tries'[j] = 0
    <3>1. CASE c \in FollowUps \ stored
      <4>1. c \in Jobs
        BY <3>1, Jobs1
      <4>2. /\ queue' = [queue EXCEPT ![c] = "pending"]
            /\ tries' = [tries EXCEPT ![c] = 0]
        BY <1>6, <3>1 DEF PollerInserts
      <4> QED
        BY <2>1, <4>1, <4>2 DEF Inv, TypeOK
    <3>2. CASE c \notin FollowUps \ stored
      BY <1>6, <3>2 DEF PollerInserts, Inv, TypeOK
    <3> QED
      BY <3>1, <3>2
  <2>3. Working'
    BY <1>1, <2>1, <2>2 DEF Inv, Working
  <2>4. recording' \subseteq Comments /\ inserting' = 0
    BY <1>6 DEF PollerInserts, Inv, TypeOK
  <2>5. UNCHANGED <<clock, asked, stored, observing, faults>>
    BY <1>6 DEF PollerInserts
  <2> QED
    BY <1>1, <1>2, <2>2, <2>3, <2>4, <2>5 DEF Inv, TypeOK
<1>7. CASE PollerCommits \/ PollerRollsBack
  <2>1. faults' \in 0..MaxFaults
    BY <1>7, ReplyWorkersAssumption DEF PollerCommits, PollerRollsBack, Inv, TypeOK
  <2>2. /\ recording' \subseteq Comments /\ stored' \subseteq Comments
        /\ inserting' \in Comments \cup {0}
    BY <1>7 DEF PollerCommits, PollerRollsBack, Inv, TypeOK
  <2>3. UNCHANGED <<clock, asked, observing, queue, tries>>
    BY <1>7 DEF PollerCommits, PollerRollsBack
  <2> QED
    BY <1>1, <1>2, <2>1, <2>2, <2>3 DEF Inv, TypeOK, Working
<1>8. ASSUME NEW j \in Jobs, Redeliver(j)
      PROVE  Inv'
  <2>1. faults' \in 0..MaxFaults
    BY <1>8, ReplyWorkersAssumption DEF Redeliver, Inv, TypeOK
  <2>2. /\ queue' \in [Jobs -> {"none", "pending", "done", "dead"}] /\ queue[j] = "done"
        /\ \A i \in Jobs : queue'[i] = (IF i = j THEN "pending" ELSE queue[i])
    BY <1>8 DEF Redeliver, Inv, TypeOK
  <2>3. UNCHANGED <<clock, asked, stored, recording, inserting, observing, tries>>
    BY <1>8 DEF Redeliver, ticket
  <2>4. Working'
    BY <1>1, <2>2, <2>3 DEF Inv, Working
  <2> QED
    BY <1>1, <1>2, <2>1, <2>2, <2>3, <2>4 DEF Inv, TypeOK
<1> QED
  BY <1>3, <1>4, <1>5, <1>6, <1>7, <1>8 DEF Environment, Poll

-----------------------------------------------------------------------------
\* A handler that answers at once: nobody else works on its job.
LEMMA AnsweredAtOnce ==
  ASSUME Inv, NEW w \in Workers, NEW j \in Jobs, Delivered(w, j), AnswersTrue(j) \/ AnswersFalse(j),
         UNCHANGED <<clock, asked, shown, firstShown, stored, recording, inserting, ourPosts,
                     attempts, pc, doing, channel, todo, text, body, at, events, faults>>,
         observing' \in BOOLEAN, dismissed' \subseteq FollowUps
  PROVE  Inv'
<1>1. queue[j] = "pending" /\ pc[w] = "idle" /\ WorkerOf(j) = w
  BY DEF Delivered
<1>2. /\ queue' \in [Jobs -> {"none", "pending", "done", "dead"}]
      /\ tries' \in [Jobs -> 0..(Retries + 1)]
      /\ \A i \in Jobs : i # j => queue'[i] = queue[i]
      /\ \A i \in Jobs : queue'[i] # "dead" => tries'[i] <= Retries
  BY <1>1, AnswerStep
<1>3. Working'
  BY <1>1, <1>2 DEF Inv, Working
<1>4. TypeOK'
  BY <1>2 DEF Inv, TypeOK
<1> QED
  BY <1>3, <1>4, RecordsUntouched DEF Inv, Holding

LEMMA BeginStep ==
  ASSUME Inv, NEW w \in Workers, NEW j \in Jobs, Delivered(w, j),
         NEW place \in {"reading", "generating"}, Begin(w, j, place),
         UNCHANGED <<ticket, zendesk, ourPosts, attempts, queue, tries, dismissed, faults>>
  PROVE  Inv'
<1>1. /\ pc' \in [Workers -> Places]
      /\ doing' \in [Workers -> Jobs \cup {NoJob}]
      /\ channel' \in [Workers -> Channels]
  BY DEF Begin, Inv, TypeOK, Places
<1>2. \A v \in Workers : /\ pc'[v] = (IF v = w THEN place ELSE pc[v])
                         /\ doing'[v] = (IF v = w THEN j ELSE doing[v])
  BY DEF Begin, Inv, TypeOK
<1>3. Working'
  BY <1>2 DEF Delivered, Inv, Working
<1>4. Holding'
  BY <1>2 DEF Begin, Delivered, Inv, Holding
<1>5. TypeOK'
  BY <1>1 DEF Begin, ticket, zendesk, Inv, TypeOK
<1> QED
  BY <1>3, <1>4, <1>5, RecordsUntouched DEF Inv

LEMMA TakeStep ==
  ASSUME Inv, NEW w \in Workers, Take(w)
  PROVE  Inv'
<1>1. observing \in BOOLEAN /\ dismissed \subseteq FollowUps
  BY DEF Inv, TypeOK
<1>2. CASE FilterAsService
  <2>1. /\ Delivered("initial_reply", Initial) /\ AnswersTrue(Initial)
        /\ UNCHANGED <<clock, asked, shown, firstShown, stored, recording, inserting, ourPosts,
                       attempts, pc, doing, channel, todo, text, body, at, events, faults>>
        /\ observing' \in BOOLEAN /\ dismissed' \subseteq FollowUps
    BY <1>1, <1>2 DEF FilterAsService, handlers, zendesk
  <2> QED
    BY <2>1, Jobs1, AnsweredAtOnce
<1>3. CASE BeginInitial
  <2>1. "generating" \in {"reading", "generating"}
    OBVIOUS
  <2> QED
    BY <1>3, <2>1, Jobs1, BeginStep DEF BeginInitial
<1>4. ASSUME NEW c \in FollowUps, NotObserving(c) \/ RetryFollowUp(c) \/ SkipFollowUp(c)
      PROVE  Inv'
  <2>1. /\ Delivered("followup_reply", c) /\ (AnswersTrue(c) \/ AnswersFalse(c))
        /\ UNCHANGED <<clock, asked, shown, firstShown, stored, recording, inserting, observing,
                       ourPosts, attempts, pc, doing, channel, todo, text, body, at, events, faults>>
        /\ dismissed' \subseteq FollowUps
    BY <1>1, <1>4 DEF NotObserving, RetryFollowUp, SkipFollowUp, ticket, zendesk, handlers
  <2> QED
    BY <1>1, <2>1, Jobs1, AnsweredAtOnce
<1>5. ASSUME NEW c \in FollowUps, BeginFollowUp(c)
      PROVE  Inv'
  <2>1. "reading" \in {"reading", "generating"}
    OBVIOUS
  <2> QED
    BY <1>5, <2>1, Jobs1, BeginStep DEF BeginFollowUp
<1> QED
  BY <1>2, <1>3, <1>4, <1>5 DEF Take, TakeInitial, TakeFollowUp

-----------------------------------------------------------------------------
\* The end of a transaction, with its answer or with none.
LEMMA EndStep ==
  ASSUME Inv, NEW w \in Workers, pc[w] # "idle", End(w),
         AnswersTrue(doing[w]) \/ AnswersFalse(doing[w]) \/ UNCHANGED <<queue, tries>>,
         \A v \in Workers \ {w} : body[v] # NoBody => ourPosts'[body[v]] = ourPosts[body[v]],
         UNCHANGED <<clock, asked, shown, firstShown, recording, inserting, observing, dismissed>>,
         stored' \subseteq Comments, ourPosts' \in [Bodies -> 0..MaxTime],
         attempts' \in [Jobs \X Outcomes \X Bodies -> Nat],
         faults' \in 0..MaxFaults,
         DuplicatesOnlyOfCommitted', PostsMatchAttempts'
  PROVE  Inv'
<1>1. doing[w] \in Jobs /\ queue[doing[w]] = "pending" /\ WorkerOf(doing[w]) = w
  BY DEF Inv, Working
<1>2. /\ queue' \in [Jobs -> {"none", "pending", "done", "dead"}]
      /\ tries' \in [Jobs -> 0..(Retries + 1)]
      /\ \A i \in Jobs : i # doing[w] => queue'[i] = queue[i]
      /\ \A i \in Jobs : queue'[i] # "dead" => tries'[i] <= Retries
  <2>1. CASE AnswersTrue(doing[w]) \/ AnswersFalse(doing[w])
    BY <1>1, <2>1, AnswerStep
  <2>2. CASE UNCHANGED <<queue, tries>>
    BY <2>2 DEF Inv, TypeOK, Working
  <2> QED
    BY <2>1, <2>2
<1>3. \A v \in Workers : /\ pc'[v] = (IF v = w THEN "idle" ELSE pc[v])
                         /\ doing'[v] = (IF v = w THEN NoJob ELSE doing[v])
                         /\ body'[v] = (IF v = w THEN NoBody ELSE body[v])
                         /\ at'[v] = (IF v = w THEN 0 ELSE at[v])
  BY DEF End, ReleasesKey, Inv, TypeOK
<1>4. Working'
  BY <1>1, <1>2, <1>3 DEF Inv, Working
<1>5. Holding'
  BY <1>3, ReplyWorkersAssumption DEF Inv, Holding
<1>6. 0 \in 0..MaxTime
  BY ReplyWorkersAssumption
<1>7. /\ pc' \in [Workers -> Places]
      /\ doing' \in [Workers -> Jobs \cup {NoJob}]
      /\ channel' \in [Workers -> Channels]
      /\ todo' \in [Workers -> SUBSET Comments]
      /\ text' \in [Workers -> Bodies \cup {NoBody}]
      /\ body' \in [Workers -> Bodies \cup {NoBody}]
      /\ at' \in [Workers -> 0..MaxTime]
      /\ events' \in [Workers -> SUBSET Comments]
  BY <1>6 DEF End, ReleasesKey, Inv, TypeOK, Channels, Places
<1>8. TypeOK'
  BY <1>2, <1>7 DEF Inv, TypeOK
<1> QED
  BY <1>4, <1>5, <1>8 DEF Inv

LEMMA RowTypes ==
  ASSUME Inv, NEW w \in Workers, doing[w] \in Jobs, NEW outcome \in Outcomes,
         NEW b \in Bodies, Row(w, outcome, b)
  PROVE  /\ attempts' \in [Jobs \X Outcomes \X Bodies -> Nat]
         /\ \A j \in Jobs, o \in Outcomes, c \in Bodies :
                attempts'[<<j, o, c>>] = (IF j = doing[w] /\ o = outcome /\ c = b
                                          THEN attempts[<<j, o, c>>] + 1 ELSE attempts[<<j, o, c>>])
<1> DEFINE key == <<doing[w], outcome, b>>
           Keys == Jobs \X Outcomes \X Bodies
<1>1. key \in Keys /\ attempts \in [Keys -> Nat] /\ attempts' = [attempts EXCEPT ![key] = attempts[key] + 1]
  BY DEF Row, Inv, TypeOK
<1>2. attempts[key] + 1 \in Nat
  BY <1>1
<1>3. attempts' \in [Keys -> Nat]
  BY <1>1, <1>2
<1>4. \A k \in Keys : attempts'[k] = (IF k = key THEN attempts[key] + 1 ELSE attempts[k])
  BY <1>1
<1>5. ASSUME NEW j \in Jobs, NEW o \in Outcomes, NEW c \in Bodies
      PROVE  /\ <<j, o, c>> \in Keys
             /\ <<j, o, c>> = key <=> (j = doing[w] /\ o = outcome /\ c = b)
  OBVIOUS
<1> QED
  BY <1>3, <1>4, <1>5

LEMMA MatchKept ==
  ASSUME NEW b \in Bodies, PostsMatchAttempts, ourPosts'[b] = ourPosts[b],
         \A j \in Jobs : attempts'[<<j, "posted", b>>] = attempts[<<j, "posted", b>>]
  PROVE  IF ourPosts'[b] = 0
         THEN \A j \in Jobs : attempts'[<<j, "posted", b>>] = 0
         ELSE \E j \in Jobs :
                 /\ attempts'[<<j, "posted", b>>] = 1
                 /\ \A i \in Jobs \ {j} : attempts'[<<i, "posted", b>>] = 0
<1>1. CASE ourPosts[b] = 0
  BY <1>1 DEF PostsMatchAttempts
<1>2. CASE ourPosts[b] # 0
  <2>1. PICK j \in Jobs : /\ attempts[<<j, "posted", b>>] = 1
                          /\ \A i \in Jobs \ {j} : attempts[<<i, "posted", b>>] = 0
    BY <1>2 DEF PostsMatchAttempts
  <2> QED
    BY <1>2, <2>1
<1> QED
  BY <1>1, <1>2

\* A row that calls a committed text a duplicate changes nothing of what the records say.
LEMMA OtherRows ==
  ASSUME Inv, NEW w \in Workers, doing[w] \in Jobs, NEW outcome \in Outcomes \ {"posted"},
         NEW b \in Bodies, Row(w, outcome, b), UNCHANGED ourPosts, ourPosts[b] # 0
  PROVE  DuplicatesOnlyOfCommitted' /\ PostsMatchAttempts'
<1>1. "posted" \in Outcomes /\ "skipped_duplicate" \in Outcomes
  BY DEF Outcomes
<1>2. \A j \in Jobs, o \in Outcomes, c \in Bodies :
        attempts'[<<j, o, c>>] = (IF j = doing[w] /\ o = outcome /\ c = b
                                  THEN attempts[<<j, o, c>>] + 1 ELSE attempts[<<j, o, c>>])
  <2>1. outcome \in Outcomes
    OBVIOUS
  <2> QED
    BY <2>1, RowTypes DEF Row
<1>3. \A j \in Jobs, c \in Bodies : attempts'[<<j, "posted", c>>] = attempts[<<j, "posted", c>>]
  BY <1>1, <1>2
<1>4. PostsMatchAttempts'
  <2> SUFFICES ASSUME NEW c \in Bodies
               PROVE  IF ourPosts'[c] = 0
                      THEN \A j \in Jobs : attempts'[<<j, "posted", c>>] = 0
                      ELSE \E j \in Jobs :
                              /\ attempts'[<<j, "posted", c>>] = 1
                              /\ \A i \in Jobs \ {j} : attempts'[<<i, "posted", c>>] = 0
    BY DEF PostsMatchAttempts
  <2> QED
    BY <1>3, MatchKept DEF Inv
<1>5. DuplicatesOnlyOfCommitted'
  BY <1>1, <1>2 DEF Inv, DuplicatesOnlyOfCommitted
<1> QED
  BY <1>4, <1>5

\* A text that is committed with the row of its attempt.
LEMMA PostedRow ==
  ASSUME Inv, NEW w \in Workers, doing[w] \in Jobs, NEW b \in Bodies, NEW t \in 1..MaxTime,
         ourPosts[b] = 0, Row(w, "posted", b), ourPosts' = [ourPosts EXCEPT ![b] = t]
  PROVE  /\ DuplicatesOnlyOfCommitted' /\ PostsMatchAttempts'
         /\ ourPosts' \in [Bodies -> 0..MaxTime]
         /\ \A c \in Bodies : c # b => ourPosts'[c] = ourPosts[c]
<1>1. "posted" \in Outcomes /\ "skipped_duplicate" \in Outcomes
  BY DEF Outcomes
<1>2. \A j \in Jobs, o \in Outcomes, c \in Bodies :
        attempts'[<<j, o, c>>] = (IF j = doing[w] /\ o = "posted" /\ c = b
                                  THEN attempts[<<j, o, c>>] + 1 ELSE attempts[<<j, o, c>>])
  BY <1>1, RowTypes DEF Row
<1>3. /\ ourPosts' \in [Bodies -> 0..MaxTime]
      /\ \A c \in Bodies : ourPosts'[c] = (IF c = b THEN t ELSE ourPosts[c])
  BY DEF Inv, TypeOK
<1>4. DuplicatesOnlyOfCommitted'
  BY <1>1, <1>2, <1>3 DEF Inv, DuplicatesOnlyOfCommitted
<1>5. \A j \in Jobs : attempts[<<j, "posted", b>>] = 0
  BY DEF Inv, PostsMatchAttempts
<1>6. /\ attempts'[<<doing[w], "posted", b>>] = 1
      /\ \A i \in Jobs \ {doing[w]} : attempts'[<<i, "posted", b>>] = 0
  BY <1>1, <1>2, <1>5
<1>7. \A j \in Jobs, c \in Bodies : c # b => attempts'[<<j, "posted", c>>] = attempts[<<j, "posted", c>>]
  BY <1>1, <1>2
<1>8. PostsMatchAttempts'
  <2> SUFFICES ASSUME NEW c \in Bodies
               PROVE  IF ourPosts'[c] = 0
                      THEN \A j \in Jobs : attempts'[<<j, "posted", c>>] = 0
                      ELSE \E j \in Jobs :
                              /\ attempts'[<<j, "posted", c>>] = 1
                              /\ \A i \in Jobs \ {j} : attempts'[<<i, "posted", c>>] = 0
    BY DEF PostsMatchAttempts
  <2>1. CASE c = b
    <3>1. ourPosts'[c] # 0
      BY <1>3, <2>1
    <3> QED
      BY <1>6, <2>1, <3>1
  <2>2. CASE c # b
    BY <1>3, <1>7, <2>2, MatchKept DEF Inv
  <2> QED
    BY <2>1, <2>2
<1> QED
  BY <1>3, <1>4, <1>8

-----------------------------------------------------------------------------
\* A transaction that ends and posts nothing.
LEMMA EndsUnposted ==
  ASSUME Inv, NEW w \in Workers, pc[w] # "idle", End(w), AnswersFalse(doing[w]),
         UNCHANGED <<clock, asked, shown, firstShown, recording, inserting, observing, ourPosts,
                     attempts, dismissed>>,
         stored' \subseteq Comments, faults' \in 0..MaxFaults
  PROVE  Inv'
<1>1. DuplicatesOnlyOfCommitted' /\ PostsMatchAttempts'
  BY RecordsUntouched
<1>2. /\ ourPosts' \in [Bodies -> 0..MaxTime]
      /\ attempts' \in [Jobs \X Outcomes \X Bodies -> Nat]
  BY DEF Inv, TypeOK
<1> QED
  BY <1>1, <1>2, EndStep DEF End, AnswersFalse

\* A transaction that ends with a duplicate.
LEMMA EndsDuplicate ==
  ASSUME Inv, NEW w \in Workers, pc[w] # "idle", End(w), AnswersTrue(doing[w]),
         NEW b \in Bodies, Row(w, "skipped_duplicate", b), ourPosts[b] # 0,
         UNCHANGED <<clock, asked, shown, firstShown, recording, inserting, observing, ourPosts,
                     dismissed>>,
         stored' \subseteq Comments, faults' \in 0..MaxFaults
  PROVE  Inv'
<1>1. doing[w] \in Jobs /\ "skipped_duplicate" \in Outcomes \ {"posted"}
  BY DEF Inv, Working, Outcomes
<1>2. attempts' \in [Jobs \X Outcomes \X Bodies -> Nat]
  BY <1>1, RowTypes DEF Row
<1>3. DuplicatesOnlyOfCommitted' /\ PostsMatchAttempts'
  BY <1>1, OtherRows DEF Row
<1>4. ourPosts' \in [Bodies -> 0..MaxTime]
  BY DEF Inv, TypeOK
<1> QED
  BY <1>2, <1>3, <1>4, EndStep DEF End, AnswersTrue

\* A transaction that ends with a text that our_posts did not have and no other
\* handler has recorded.
LEMMA EndsPosted ==
  ASSUME Inv, NEW w \in Workers, pc[w] # "idle", End(w), AnswersTrue(doing[w]),
         NEW b \in Bodies, NEW t \in 1..MaxTime, Row(w, "posted", b),
         ourPosts[b] = 0, ourPosts' = [ourPosts EXCEPT ![b] = t],
         \A v \in Workers \ {w} : body[v] # b,
         UNCHANGED <<clock, asked, shown, firstShown, recording, inserting, observing, dismissed, faults>>,
         stored' \subseteq Comments
  PROVE  Inv'
<1>1. doing[w] \in Jobs /\ "posted" \in Outcomes
  BY DEF Inv, Working, Outcomes
<1>2. attempts' \in [Jobs \X Outcomes \X Bodies -> Nat]
  BY <1>1, RowTypes DEF Row
<1>3. /\ DuplicatesOnlyOfCommitted' /\ PostsMatchAttempts'
      /\ ourPosts' \in [Bodies -> 0..MaxTime]
      /\ \A c \in Bodies : c # b => ourPosts'[c] = ourPosts[c]
  BY <1>1, PostedRow DEF Row
<1>4. \A v \in Workers \ {w} : body[v] # NoBody => ourPosts'[body[v]] = ourPosts[body[v]]
  BY <1>3 DEF Inv, TypeOK
<1>5. faults' \in 0..MaxFaults
  BY DEF Inv, TypeOK
<1> QED
  BY <1>2, <1>3, <1>4, <1>5, EndStep DEF End

\* A handler that moves on before it has recorded a text.
LEMMA ReadingStep ==
  ASSUME Inv, NEW w \in Workers,
         ReadConversation(w) \/ StoreComment(w) \/ LLMHangs(w) \/ \E b \in Bodies : Generate(w, b)
  PROVE  Inv'
<1>1. /\ UNCHANGED <<clock, asked, stored, recording, inserting, observing, shown, firstShown,
                     ourPosts, attempts, queue, tries, doing, channel, body, at, dismissed, faults>>
      /\ pc[w] \in {"reading", "generating"}
  BY DEF ReadConversation, StoreComment, LLMHangs, Generate, Asking, ticket, zendesk
<1>2. PICK place \in {"generating", "hung", "saving"} : pc' = [pc EXCEPT ![w] = place]
  <2>1. CASE StoreComment(w)
    <3>1. pc' = pc /\ pc[w] = "generating" /\ pc \in [Workers -> Places]
      BY <2>1 DEF StoreComment, Inv, TypeOK
    <3> QED
      BY <3>1
  <2> QED
    BY <2>1 DEF ReadConversation, LLMHangs, Generate
<1>3. /\ pc' \in [Workers -> Places]
      /\ \A v \in Workers : pc'[v] = (IF v = w THEN place ELSE pc[v])
  BY <1>2 DEF Inv, TypeOK, Places
<1>4. todo' \in [Workers -> SUBSET Comments] /\ events' \in [Workers -> SUBSET Comments]
  <2>1. todo \in [Workers -> SUBSET Comments] /\ events \in [Workers -> SUBSET Comments]
    BY DEF Inv, TypeOK
  <2>2. CASE StoreComment(w)
    <3>1. PICK c \in todo[w] : /\ todo' = [todo EXCEPT ![w] = todo[w] \ {c}]
                               /\ events' = [events EXCEPT ![w] = events[w] \cup ({c} \ stored)]
      BY <2>2 DEF StoreComment
    <3> QED
      BY <2>1, <3>1
  <2>3. CASE ReadConversation(w)
    <3>1. {c \in Comments : asked[c] > 0} \in SUBSET Comments
      OBVIOUS
    <3> QED
      BY <2>1, <2>3, <3>1 DEF ReadConversation
  <2> QED
    BY <2>1, <2>2, <2>3 DEF LLMHangs, Generate
<1>5. text' \in [Workers -> Bodies \cup {NoBody}]
  BY DEF ReadConversation, StoreComment, LLMHangs, Generate, Inv, TypeOK
<1>6. Working' /\ Holding'
  BY <1>1, <1>3 DEF Inv, Working, Holding
<1>7. TypeOK'
  BY <1>1, <1>3, <1>4, <1>5 DEF Inv, TypeOK
<1> QED
  BY <1>1, <1>6, <1>7, RecordsUntouched DEF Inv

LEMMA PostStep ==
  ASSUME Inv, NEW w \in Workers, Post(w) \/ LLMHangs(w) \/ HandlerDies(w)
  PROVE  Inv'
<1>1. /\ stored \subseteq Comments
      /\ events[w] \subseteq Comments
      /\ faults \in 0..MaxFaults /\ clock \in 1..MaxTime
      /\ MaxFaults \in Nat /\ MaxTime \in Nat
      /\ ourPosts \in [Bodies -> 0..MaxTime]
  BY ReplyWorkersAssumption DEF Inv, TypeOK
<1>2. CASE ReadConversation(w) \/ StoreComment(w) \/ LLMHangs(w) \/ \E b \in Bodies : Generate(w, b)
  BY <1>2, ReadingStep
<1>3. CASE EmptyReply(w)
  <2>1. /\ pc[w] # "idle" /\ End(w) /\ AnswersFalse(doing[w])
        /\ UNCHANGED <<clock, asked, shown, firstShown, recording, inserting, observing, ourPosts,
                       attempts, dismissed>>
        /\ stored' \subseteq Comments /\ faults' \in 0..MaxFaults
    BY <1>1, <1>3 DEF EmptyReply, Asking, zendesk
  <2> QED
    BY <2>1, EndsUnposted DEF End, AnswersFalse
<1>4. ASSUME NEW b \in Bodies, SkipDuplicate(w, b)
      PROVE  Inv'
  <2>1. /\ pc[w] # "idle" /\ End(w) /\ AnswersTrue(doing[w])
        /\ Row(w, "skipped_duplicate", b) /\ ourPosts[b] # 0
        /\ UNCHANGED <<clock, asked, shown, firstShown, recording, inserting, observing, ourPosts,
                       dismissed>>
        /\ stored' \subseteq Comments /\ faults' \in 0..MaxFaults
    BY <1>1, <1>4 DEF SkipDuplicate, Recorded, zendesk
  <2> QED
    BY <2>1, EndsDuplicate DEF Row, End, AnswersTrue
<1>5. ASSUME NEW b \in Bodies, PostedOff(w, b)
      PROVE  Inv'
  <2>1. /\ pc[w] # "idle" /\ End(w) /\ AnswersTrue(doing[w])
        /\ Row(w, "posted", b) /\ ourPosts[b] = 0 /\ ourPosts' = [ourPosts EXCEPT ![b] = clock]
        /\ \A v \in Workers \ {w} : body[v] # b
        /\ UNCHANGED <<clock, asked, shown, firstShown, recording, inserting, observing, dismissed,
                       faults>>
        /\ stored' \subseteq Comments
    BY <1>1, <1>5 DEF PostedOff, Recorded, Waits, zendesk
  <2> QED
    BY <1>1, <2>1, EndsPosted DEF Row, End, AnswersTrue
<1>6. ASSUME NEW b \in Bodies, SaveReply(w, b)
      PROVE  Inv'
  <2>1. /\ body' \in [Workers -> Bodies \cup {NoBody}]
        /\ text' \in [Workers -> Bodies \cup {NoBody}]
        /\ at' \in [Workers -> 0..MaxTime]
        /\ pc' \in [Workers -> Places]
    BY <1>1, <1>6 DEF SaveReply, Inv, TypeOK, Places
  <2>2. \A v \in Workers : /\ pc'[v] = (IF v = w THEN "posting" ELSE pc[v])
                           /\ body'[v] = (IF v = w THEN b ELSE body[v])
                           /\ at'[v] = (IF v = w THEN clock ELSE at[v])
    BY <1>6 DEF SaveReply, Inv, TypeOK
  <2>3. /\ pc[w] # "idle" /\ ourPosts[b] = 0 /\ \A v \in Workers \ {w} : body[v] # b
        /\ UNCHANGED <<clock, asked, stored, recording, inserting, observing, shown, firstShown,
                       ourPosts, attempts, queue, tries, doing, channel, todo, events, dismissed,
                       faults>>
    BY <1>6 DEF SaveReply, Recorded, Waits, ticket, zendesk
  <2>4. Working'
    BY <2>2, <2>3 DEF Inv, Working
  <2>5. clock > 0
    BY <1>1
  <2>6. Holding'
    BY <2>2, <2>3, <2>5 DEF Inv, Holding
  <2>7. TypeOK'
    BY <2>1, <2>3 DEF Inv, TypeOK
  <2> QED
    BY <2>3, <2>4, <2>6, <2>7, RecordsUntouched DEF Inv
<1>7. CASE AddComment(w)
  <2>1. /\ pc[w] = "posting" /\ body[w] \in Bodies /\ doing[w] \in Jobs
        /\ UNCHANGED <<clock, asked, stored, recording, inserting, observing, ourPosts, attempts,
                       queue, tries, doing, channel, todo, text, body, at, events, dismissed, faults>>
    BY <1>7 DEF AddComment, ticket, Inv, Holding, Working
  <2>2. shown' \in [Jobs \X Bodies -> Nat]
    <3> DEFINE key == <<doing[w], body[w]>>
    <3>1. key \in Jobs \X Bodies /\ shown' = [shown EXCEPT ![key] = shown[key] + 1]
      BY <1>7, <2>1 DEF AddComment
    <3>2. shown \in [Jobs \X Bodies -> Nat]
      BY DEF Inv, TypeOK
    <3>3. shown[key] + 1 \in Nat
      BY <3>1, <3>2
    <3> QED
      BY <3>1, <3>2, <3>3
  <2>3. firstShown' \in 0..MaxTime
    BY <1>1, <1>7 DEF AddComment, Inv, TypeOK
  <2>4. /\ pc' \in [Workers -> Places]
        /\ \A v \in Workers : pc'[v] = (IF v = w THEN "posted" ELSE pc[v])
    BY <1>7 DEF AddComment, Inv, TypeOK, Places
  <2>5. Working' /\ Holding'
    BY <2>1, <2>4 DEF Inv, Working, Holding
  <2>6. TypeOK'
    BY <2>1, <2>2, <2>3, <2>4 DEF Inv, TypeOK
  <2> QED
    BY <2>1, <2>5, <2>6, RecordsUntouched DEF Inv
<1>8. CASE PostSucceeds(w)
  <2>1. /\ pc[w] = "posted" /\ body[w] \in Bodies /\ ourPosts[body[w]] = 0
        /\ at[w] \in 1..MaxTime
        /\ \A v \in Workers \ {w} : body[v] # body[w]
    BY <1>8, ReplyWorkersAssumption DEF PostSucceeds, Inv, TypeOK, Holding
  <2>2. /\ End(w) /\ AnswersTrue(doing[w])
        /\ Row(w, "posted", body[w]) /\ ourPosts' = [ourPosts EXCEPT ![body[w]] = at[w]]
        /\ UNCHANGED <<clock, asked, shown, firstShown, recording, inserting, observing, dismissed, faults>>
        /\ stored' \subseteq Comments
    BY <1>1, <1>8 DEF PostSucceeds, PostedOutcome, zendesk
  <2>3. PICK b \in Bodies, t \in 1..MaxTime : b = body[w] /\ t = at[w]
    BY <2>1
  <2>4. Row(w, "posted", b) /\ ourPosts' = [ourPosts EXCEPT ![b] = t]
    BY <2>2, <2>3 DEF Row
  <2> QED
    BY <2>1, <2>2, <2>3, <2>4, EndsPosted DEF Row, End, AnswersTrue
<1>9. CASE PostFails(w)
  <2>1. /\ pc[w] # "idle"
        /\ UNCHANGED <<clock, asked, shown, firstShown, recording, inserting, observing, ourPosts,
                       attempts, dismissed>>
        /\ stored' \subseteq Comments /\ faults' \in 0..MaxFaults
        /\ End(w) /\ AnswersFalse(doing[w])
    BY <1>1, <1>9 DEF PostFails, DeleteOurPost, zendesk
  <2> QED
    BY <2>1, EndsUnposted DEF End, AnswersFalse
<1>10. CASE HandlerDies(w)
  <2>1. /\ pc[w] # "idle" /\ End(w) /\ (AnswersFalse(doing[w]) \/ UNCHANGED <<queue, tries>>)
        /\ UNCHANGED <<clock, asked, stored, recording, inserting, observing, shown, firstShown,
                       ourPosts, attempts, dismissed>>
        /\ faults' \in 0..MaxFaults
    BY <1>1, <1>10 DEF HandlerDies, ticket, zendesk
  <2>2. attempts' \in [Jobs \X Outcomes \X Bodies -> Nat]
    BY <2>1 DEF Inv, TypeOK
  <2>3. DuplicatesOnlyOfCommitted' /\ PostsMatchAttempts'
    BY <2>1, RecordsUntouched
  <2> QED
    BY <1>1, <2>1, <2>2, <2>3, EndStep DEF End, AnswersFalse
<1> QED
  BY <1>2, <1>3, <1>4, <1>5, <1>6, <1>7, <1>8, <1>9, <1>10 DEF Post

-----------------------------------------------------------------------------
LEMMA InvStep == Inv /\ [Next]_vars => Inv'
<1> SUFFICES ASSUME Inv, [Next]_vars PROVE Inv'
  OBVIOUS
<1>1. CASE Next
  BY <1>1, TakeStep, PostStep, EnvironmentStep DEF Next
<1>2. CASE UNCHANGED vars
  <2>1. DuplicatesOnlyOfCommitted' /\ PostsMatchAttempts'
    BY <1>2, RecordsUntouched DEF vars
  <2>2. TypeOK'
    BY <1>2 DEF vars, Inv, TypeOK
  <2>3. Working' /\ Holding'
    BY <1>2 DEF vars, Inv, Working, Holding
  <2> QED
    BY <2>1, <2>2, <2>3 DEF Inv
<1> QED
  BY <1>1, <1>2

LEMMA InvAlways == Spec => []Inv
  BY InitInv, InvStep, PTL DEF Spec

\* The tables, the queue and the handlers hold what they may hold, for any number of
\* comments, texts, retries, seconds and faults.
THEOREM TypeCorrect == Spec => []TypeOK
<1>1. Inv => TypeOK
  BY DEF Inv
<1> QED
  BY <1>1, InvAlways, PTL

\* our_posts and the attempts agree: a text is committed exactly when one attempt
\* counts as posted with it, and only a committed text makes a reply a duplicate.
THEOREM RecordsAgree == Spec => [](DuplicatesOnlyOfCommitted /\ PostsMatchAttempts)
<1>1. Inv => DuplicatesOnlyOfCommitted /\ PostsMatchAttempts
  BY DEF Inv
<1> QED
  BY <1>1, InvAlways, PTL

\* The two workers do not commit a text twice, and a job that a handler works on is not
\* answered by another.
THEOREM HandlersHoldTheirText == Spec => [](Working /\ Holding)
<1>1. Inv => Working /\ Holding
  BY DEF Inv
<1> QED
  BY <1>1, InvAlways, PTL


-----------------------------------------------------------------------------
\* A text has been answered with when it is committed, or when a handler that has posted
\* it has not ended.
Answered(b) == ourPosts[b] # 0 \/ \E w \in Workers : pc[w] = "posted" /\ body[w] = b

\* Beyond the first, each comment that Zendesk shows with a text has had its fault.
CommentsPaid ==
    \A b \in Bodies :
        /\ IsFiniteSet(ShownComments(b))
        /\ Answered(b) => Shown(b) <= faults + 1
        /\ ~Answered(b) => Shown(b) <= faults

\* The rows of a text, and the comments that Zendesk shows with it.
LEMMA RowMembers ==
  ASSUME NEW b, NEW p
  PROVE  /\ p \in PostedRows(b) <=>
              \E j \in Jobs : \E n \in 1..attempts[<<j, "posted", b>>] : p = <<j, n>>
         /\ p \in ShownComments(b) <=>
              \E j \in Jobs : \E n \in 1..shown[<<j, b>>] : p = <<j, n>>
<1>1. p \in PostedRows(b) <=> \E j \in Jobs : \E n \in 1..attempts[<<j, "posted", b>>] : p = <<j, n>>
  <2>1. \A j \in Jobs : p \in {j} \X (1..attempts[<<j, "posted", b>>]) <=>
                        \E n \in 1..attempts[<<j, "posted", b>>] : p = <<j, n>>
    OBVIOUS
  <2>2. p \in PostedRows(b) <=> \E j \in Jobs : p \in {j} \X (1..attempts[<<j, "posted", b>>])
    BY Zenon DEF PostedRows
  <2> QED
    BY <2>1, <2>2, Zenon
<1>2. p \in ShownComments(b) <=> \E j \in Jobs : \E n \in 1..shown[<<j, b>>] : p = <<j, n>>
  <2>1. \A j \in Jobs : p \in {j} \X (1..shown[<<j, b>>]) <=>
                        \E n \in 1..shown[<<j, b>>] : p = <<j, n>>
    OBVIOUS
  <2>2. p \in ShownComments(b) <=> \E j \in Jobs : p \in {j} \X (1..shown[<<j, b>>])
    BY Zenon DEF ShownComments
  <2> QED
    BY <2>1, <2>2, Zenon
<1> QED
  BY <1>1, <1>2

\* Zendesk shows nothing new, and a text is forgotten only for a fault.
LEMMA NothingShown ==
  ASSUME Inv, Inv', CommentsPaid, shown' = shown, faults <= faults',
         \A b \in Bodies : Answered(b) => Answered(b)' \/ faults < faults'
  PROVE  CommentsPaid'
<1>1. faults \in Nat /\ faults' \in Nat /\ faults <= faults'
  BY ReplyWorkersAssumption DEF Inv, TypeOK
<1>2. SUFFICES ASSUME NEW b \in Bodies
               PROVE  /\ IsFiniteSet(ShownComments(b)')
                      /\ Answered(b)' => Shown(b)' <= faults' + 1
                      /\ ~Answered(b)' => Shown(b)' <= faults'
  BY DEF CommentsPaid
<1>3. ShownComments(b)' = ShownComments(b)
  BY DEF ShownComments
<1>4. /\ IsFiniteSet(ShownComments(b))
      /\ Answered(b) => Cardinality(ShownComments(b)) <= faults + 1
      /\ ~Answered(b) => Cardinality(ShownComments(b)) <= faults
  BY DEF CommentsPaid, Shown
<1>5. Cardinality(ShownComments(b)) \in Nat
  BY <1>4, FS_CardinalityType
<1>6. PICK n \in Nat : n = Cardinality(ShownComments(b))
  BY <1>5
<1>9. Shown(b)' = n
  BY <1>3, <1>6 DEF Shown
<1>7. Answered(b)' => n <= faults' + 1
  <2>1. n <= faults + 1
    BY <1>1, <1>4, <1>6
  <2>2. PICK x \in Nat, y \in Nat : x = faults /\ y = faults'
    BY <1>1
  <2>3. n <= x + 1 /\ x <= y
    BY <1>1, <2>1, <2>2
  <2>4. n <= y + 1
    BY <2>3
  <2> QED
    BY <2>2, <2>4
<1>8. ~Answered(b)' => n <= faults'
  <2>1. CASE Answered(b)
    <3>1. n <= faults + 1 /\ (Answered(b)' \/ faults < faults')
      BY <1>4, <1>6, <2>1
    <3> QED
      BY <1>1, <3>1
  <2>2. CASE ~Answered(b)
    BY <1>1, <1>4, <1>6, <2>2
  <2> QED
    BY <2>1, <2>2
<1> QED
  BY <1>3, <1>4, <1>7, <1>8, <1>9

\* One more comment, of a text that had not been answered with.
LEMMA OneComment ==
  ASSUME Inv, CommentsPaid, NEW w \in Workers, AddComment(w)
  PROVE  CommentsPaid'
<1>1. /\ pc[w] = "posting" /\ body[w] \in Bodies /\ ourPosts[body[w]] = 0 /\ doing[w] \in Jobs
      /\ \A v \in Workers \ {w} : body[v] # body[w]
      /\ faults \in Nat
  BY ReplyWorkersAssumption DEF AddComment, Inv, Holding, Working, TypeOK
<1>2. /\ UNCHANGED <<ourPosts, body, faults>>
      /\ \A v \in Workers : pc'[v] = (IF v = w THEN "posted" ELSE pc[v])
  BY DEF AddComment, Inv, TypeOK
<1>3. PICK c \in Bodies, i \in Jobs : c = body[w] /\ i = doing[w]
  BY <1>1
<1>4. \A b \in Bodies, j \in Jobs :
        /\ shown[<<j, b>>] \in Nat
        /\ shown'[<<j, b>>] = (IF b = c /\ j = i THEN shown[<<j, b>>] + 1 ELSE shown[<<j, b>>])
  <2>1. shown \in [Jobs \X Bodies -> Nat] /\ shown' = [shown EXCEPT ![<<i, c>>] = shown[<<i, c>>] + 1]
    BY <1>3 DEF AddComment, Inv, TypeOK
  <2> QED
    BY <2>1
<1>5. ~Answered(c) /\ Answered(c)'
  BY <1>1, <1>2, <1>3 DEF Answered
<1>6. \A b \in Bodies \ {c} : Answered(b)' = Answered(b)
  <2> SUFFICES ASSUME NEW b \in Bodies \ {c} PROVE Answered(b)' = Answered(b)
    OBVIOUS
  <2> QED
    BY <1>1, <1>2, <1>3 DEF Answered
<1>7. ASSUME NEW b \in Bodies, b # c
      PROVE  ShownComments(b)' = ShownComments(b)
  BY <1>4, <1>7 DEF ShownComments
<1>8. /\ IsFiniteSet(ShownComments(c)')
      /\ Cardinality(ShownComments(c)') <= Cardinality(ShownComments(c)) + 1
      /\ Cardinality(ShownComments(c)) \in Nat /\ Cardinality(ShownComments(c)') \in Nat
  <2> DEFINE new == <<i, shown[<<i, c>>] + 1>>
  <2>1. IsFiniteSet(ShownComments(c))
    BY DEF CommentsPaid
  <2>2. ShownComments(c)' \subseteq ShownComments(c) \cup {new}
    <3> SUFFICES ASSUME NEW p, p \in ShownComments(c)', p # new
                 PROVE  p \in ShownComments(c)
      OBVIOUS
    <3>1. PICK j \in Jobs : p \in {j} \X (1..shown'[<<j, c>>])
      BY Zenon DEF ShownComments
    <3>2. PICK n \in 1..shown'[<<j, c>>] : p = <<j, n>>
      BY <3>1
    <3>3. n \in 1..shown[<<j, c>>]
      BY <1>4, <3>2
    <3> QED
      BY <3>2, <3>3, RowMembers
  <2>3. /\ IsFiniteSet(ShownComments(c) \cup {new})
        /\ Cardinality(ShownComments(c) \cup {new}) <= Cardinality(ShownComments(c)) + 1
    <3>1. Cardinality(ShownComments(c)) \in Nat
      BY <2>1, FS_CardinalityType
    <3> HIDE DEF new
    <3> QED
      BY <2>1, <3>1, FS_AddElement
  <2>4. /\ IsFiniteSet(ShownComments(c)')
        /\ Cardinality(ShownComments(c)') <= Cardinality(ShownComments(c) \cup {new})
    BY <2>2, <2>3, FS_Subset
  <2>5. /\ Cardinality(ShownComments(c)) \in Nat /\ Cardinality(ShownComments(c)') \in Nat
        /\ Cardinality(ShownComments(c) \cup {new}) \in Nat
    BY <2>1, <2>3, <2>4, FS_CardinalityType
  <2> HIDE DEF new
  <2> QED
    BY <2>3, <2>4, <2>5
<1>9. Shown(c) <= faults
  BY <1>5 DEF CommentsPaid
<1>10. Shown(c)' <= faults' + 1
  BY <1>1, <1>2, <1>8, <1>9 DEF Shown
<1>11. ASSUME NEW b \in Bodies, b # c
       PROVE  /\ IsFiniteSet(ShownComments(b)')
              /\ Answered(b)' => Shown(b)' <= faults' + 1
              /\ ~Answered(b)' => Shown(b)' <= faults'
  <2>1. Shown(b)' = Shown(b) /\ ShownComments(b)' = ShownComments(b) /\ faults' = faults
        /\ (Answered(b)' <=> Answered(b))
    BY <1>2, <1>6, <1>7, <1>11 DEF Shown
  <2>2. /\ IsFiniteSet(ShownComments(b))
        /\ Answered(b) => Shown(b) <= faults + 1
        /\ ~Answered(b) => Shown(b) <= faults
    BY DEF CommentsPaid
  <2> QED
    BY <2>1, <2>2
<1> QED
  BY <1>5, <1>8, <1>10, <1>11 DEF CommentsPaid

\* A transaction that ends forgets a text only when it dies after the post.
LEMMA EndKeepsAnswers ==
  ASSUME Inv, NEW w \in Workers, End(w), NEW b \in Bodies, Answered(b),
         ourPosts[b] # 0 => ourPosts'[b] # 0,
         pc[w] = "posted" /\ body[w] = b => ourPosts'[b] # 0
  PROVE  Answered(b)'
<1>1. \A v \in Workers \ {w} : pc'[v] = pc[v] /\ body'[v] = body[v]
  BY DEF End, ReleasesKey, Inv, TypeOK
<1>2. CASE ourPosts[b] # 0
  BY <1>2 DEF Answered
<1>3. CASE ourPosts[b] = 0
  <2>1. PICK v \in Workers : pc[v] = "posted" /\ body[v] = b
    BY <1>3 DEF Answered
  <2>2. CASE v = w
    BY <2>1, <2>2 DEF Answered
  <2>3. CASE v # w
    BY <1>1, <2>1, <2>3 DEF Answered
  <2> QED
    BY <2>2, <2>3
<1> QED
  BY <1>2, <1>3


LEMMA PaidStep ==
  ASSUME Inv, Inv', CommentsPaid, [Next]_vars
  PROVE  CommentsPaid'
<1>1. faults \in Nat
  BY ReplyWorkersAssumption DEF Inv, TypeOK
\* Neither what is answered nor what is shown changes.
<1>2. ASSUME UNCHANGED <<shown, ourPosts, body>>, faults <= faults',
             \A w \in Workers : pc[w] = "posted" <=> pc'[w] = "posted"
      PROVE  CommentsPaid'
  <2>1. \A b \in Bodies : Answered(b) => Answered(b)'
    BY <1>2 DEF Answered
  <2> QED
    BY <1>2, <2>1, NothingShown
<1>3. CASE Environment
  <2>1. UNCHANGED <<shown, ourPosts, body, pc>>
    BY <1>3 DEF Environment, Tick, TicketCloses, CommentIsPosted, PollerReaches, Poll,
           PollerInserts, PollerCommits, PollerRollsBack, Redeliver, handlers, zendesk
  <2>2. faults' = faults \/ faults' = faults + 1
    BY <1>3 DEF Environment, Tick, TicketCloses, CommentIsPosted, PollerReaches, Poll,
           PollerInserts, PollerCommits, PollerRollsBack, Redeliver
  <2> QED
    BY <1>1, <1>2, <2>1, <2>2
<1>4. ASSUME NEW w \in Workers, Take(w)
      PROVE  CommentsPaid'
  <2>1. UNCHANGED <<shown, ourPosts, body, faults>>
    BY <1>4 DEF Take, TakeInitial, TakeFollowUp, FilterAsService, BeginInitial, NotObserving,
           RetryFollowUp, SkipFollowUp, BeginFollowUp, Begin, handlers, zendesk
  <2>2. \A v \in Workers : pc[v] = "posted" <=> pc'[v] = "posted"
    <3>1. CASE UNCHANGED pc
      BY <3>1
    <3>2. ASSUME NEW v \in Workers, NEW j \in Jobs, NEW place \in {"reading", "generating"},
                 Delivered(v, j), Begin(v, j, place)
          PROVE  \A u \in Workers : pc[u] = "posted" <=> pc'[u] = "posted"
      BY <3>2 DEF Delivered, Begin, Inv, TypeOK
    <3> QED
      BY <1>4, <3>1, <3>2, Jobs1 DEF Take, TakeInitial, TakeFollowUp, FilterAsService, BeginInitial,
         NotObserving, RetryFollowUp, SkipFollowUp, BeginFollowUp, handlers
  <2> QED
    BY <1>1, <1>2, <2>1, <2>2
<1>11. ASSUME NEW w \in Workers,
              ReadConversation(w) \/ StoreComment(w) \/ LLMHangs(w) \/ \E b \in Bodies : Generate(w, b)
      PROVE  CommentsPaid'
  <2>1. UNCHANGED <<shown, ourPosts, body, faults>>
    BY <1>11 DEF ReadConversation, StoreComment, LLMHangs, Generate, zendesk
  <2>2. \A v \in Workers : pc[v] = "posted" <=> pc'[v] = "posted"
    BY <1>11 DEF ReadConversation, StoreComment, LLMHangs, Generate, Asking, Inv, TypeOK
  <2> QED
    BY <1>1, <1>2, <2>1, <2>2
<1>5. ASSUME NEW w \in Workers, EmptyReply(w) \/ (\E b \in Bodies : SkipDuplicate(w, b) \/ PostedOff(w, b))
      PROVE  CommentsPaid'
  <2>1. pc[w] # "posted" /\ End(w) /\ UNCHANGED <<shown, faults>>
    BY <1>5 DEF EmptyReply, Asking, SkipDuplicate, PostedOff, zendesk
  <2>2. \A b \in Bodies : ourPosts[b] # 0 => ourPosts'[b] # 0
    BY <1>5, ReplyWorkersAssumption DEF EmptyReply, SkipDuplicate, PostedOff, Inv, TypeOK
  <2>3. \A b \in Bodies : Answered(b) => Answered(b)'
    BY <2>1, <2>2, EndKeepsAnswers DEF End
  <2> QED
    BY <1>1, <2>1, <2>3, NothingShown
<1>6. ASSUME NEW w \in Workers, NEW b \in Bodies, SaveReply(w, b)
      PROVE  CommentsPaid'
  <2>1. /\ pc[w] = "saving" /\ UNCHANGED <<shown, faults, ourPosts>>
        /\ \A v \in Workers \ {w} : pc'[v] = pc[v] /\ body'[v] = body[v]
    BY <1>6 DEF SaveReply, zendesk, Inv, TypeOK
  <2>2. \A c \in Bodies : Answered(c) => Answered(c)'
    BY <2>1 DEF Answered
  <2> QED
    BY <1>1, <2>1, <2>2, NothingShown
<1>7. ASSUME NEW w \in Workers, AddComment(w)
      PROVE  CommentsPaid'
  BY <1>7, OneComment
<1>8. ASSUME NEW w \in Workers, PostSucceeds(w)
      PROVE  CommentsPaid'
  <2>1. End(w) /\ UNCHANGED <<shown, faults>>
    BY <1>8 DEF PostSucceeds, zendesk
  <2>2. /\ body[w] \in Bodies /\ ourPosts[body[w]] = 0 /\ at[w] > 0 /\ at[w] \in Nat
        /\ ourPosts' = [ourPosts EXCEPT ![body[w]] = at[w]]
    BY <1>8 DEF PostSucceeds, Inv, Holding, TypeOK
  <2>3. \A b \in Bodies : /\ ourPosts[b] # 0 => ourPosts'[b] # 0
                          /\ body[w] = b => ourPosts'[b] # 0
    BY <2>2 DEF Inv, TypeOK
  <2>4. \A b \in Bodies : Answered(b) => Answered(b)'
    BY <2>1, <2>3, EndKeepsAnswers DEF End
  <2> QED
    BY <1>1, <2>1, <2>4, NothingShown
<1>9. ASSUME NEW w \in Workers, PostFails(w) \/ HandlerDies(w)
      PROVE  CommentsPaid'
  <2>1. /\ End(w) /\ UNCHANGED <<shown, ourPosts>>
        /\ faults' = faults \/ faults' = faults + 1
        /\ pc[w] = "posted" => faults' = faults + 1
    BY <1>9 DEF PostFails, DeleteOurPost, HandlerDies, zendesk
  <2>2. ASSUME pc[w] # "posted"
        PROVE  \A b \in Bodies : Answered(b) => Answered(b)'
    BY <2>1, <2>2, EndKeepsAnswers DEF End
  <2>3. faults <= faults' /\ (pc[w] = "posted" => faults < faults')
    BY <1>1, <2>1
  <2>4. \A b \in Bodies : Answered(b) => Answered(b)' \/ faults < faults'
    BY <2>2, <2>3, Zenon
  <2> QED
    BY <2>1, <2>3, <2>4, NothingShown
<1>10. CASE UNCHANGED vars
  BY <1>1, <1>2, <1>10 DEF vars
<1> QED
  BY <1>3, <1>4, <1>5, <1>6, <1>7, <1>8, <1>9, <1>10, <1>11 DEF Next, Post

LEMMA PaidAlways == Spec => []CommentsPaid
<1>1. Init => CommentsPaid
  <2> SUFFICES ASSUME Init, NEW b \in Bodies
               PROVE  /\ IsFiniteSet(ShownComments(b))
                      /\ Answered(b) => Shown(b) <= faults + 1
                      /\ ~Answered(b) => Shown(b) <= faults
    BY DEF CommentsPaid
  <2>1. ShownComments(b) = {}
    <3>1. \A j \in Jobs : shown[<<j, b>>] = 0
      BY DEF Init
    <3>2. \A j \in Jobs : \A n \in 1..shown[<<j, b>>] : FALSE
      BY <3>1
    <3>3. \A p : p \notin ShownComments(b)
      BY <3>2, RowMembers
    <3> QED
      BY <3>3
  <2>2. IsFiniteSet(ShownComments(b)) /\ Shown(b) = 0 /\ faults = 0
    BY <2>1, FS_EmptySet DEF Shown, Init
  <2> QED
    BY <2>2
<1>2. Inv /\ Inv' /\ CommentsPaid /\ [Next]_vars => CommentsPaid'
  BY PaidStep
<1> QED
  BY <1>1, <1>2, InvAlways, PTL DEF Spec

\* A text that has been answered with is counted: by its attempt, or by the handler that
\* waits.
LEMMA AnswersCount ==
  ASSUME Inv, NEW b \in Bodies
  PROVE  /\ Posted(b) \in Nat /\ InFlight(b) \in Nat
         /\ Answered(b) => 1 <= Posted(b) + InFlight(b)
<1> DEFINE flying == {w \in Workers : pc[w] = "posted" /\ body[w] = b}
<1>1. IsFiniteSet(flying)
  <2>1. IsFiniteSet({"initial_reply"} \cup {"followup_reply"})
    BY FS_Singleton, FS_Union
  <2>2. flying \subseteq {"initial_reply"} \cup {"followup_reply"}
    BY DEF Workers
  <2> QED
    BY <2>1, <2>2, FS_Subset
<1>2. /\ InFlight(b) \in Nat
      /\ (\E w \in Workers : pc[w] = "posted" /\ body[w] = b) => InFlight(b) # 0
  BY <1>1, FS_CardinalityType, FS_EmptySet DEF InFlight
<1>3. CASE ourPosts[b] = 0
  <2>1. \A j \in Jobs : attempts[<<j, "posted", b>>] = 0
    BY <1>3 DEF Inv, PostsMatchAttempts
  <2>2. PostedRows(b) = {}
    <3>1. \A j \in Jobs : \A n \in 1..attempts[<<j, "posted", b>>] : FALSE
      BY <2>1
    <3>2. \A p : p \notin PostedRows(b)
      BY <3>1, RowMembers
    <3> QED
      BY <3>2
  <2>3. Posted(b) = 0
    BY <2>2, FS_EmptySet DEF Posted
  <2> QED
    BY <1>2, <1>3, <2>3 DEF Answered
<1>4. CASE ourPosts[b] # 0
  <2>1. PICK j \in Jobs : /\ attempts[<<j, "posted", b>>] = 1
                          /\ \A i \in Jobs \ {j} : attempts[<<i, "posted", b>>] = 0
    BY <1>4 DEF Inv, PostsMatchAttempts
  <2>2. PostedRows(b) = {<<j, 1>>}
    <3>1. \A i \in Jobs : \A n \in 1..attempts[<<i, "posted", b>>] : i = j /\ n = 1
      BY <2>1
    <3>2. 1 \in 1..attempts[<<j, "posted", b>>]
      BY <2>1
    <3>3. <<j, 1>> \in PostedRows(b)
      BY <3>2, RowMembers
    <3>4. \A p \in PostedRows(b) : p = <<j, 1>>
      BY <3>1, RowMembers
    <3> QED
      BY <3>3, <3>4
  <2>3. Posted(b) = 1
    BY <2>2, FS_Singleton DEF Posted
  <2> QED
    BY <1>2, <2>3
<1> QED
  BY <1>3, <1>4

\* our_posts, the attempts and what Zendesk shows account for each other: beyond a comment
\* for each attempt that counts as posted and for each handler that waits, Zendesk shows
\* no comment without a crash or a lost answer, for any jobs, texts and retries.
THEOREM PostsAccounted == Spec => []PostsAreAccountedFor
<1>1. Inv /\ CommentsPaid => PostsAreAccountedFor
  <2> SUFFICES ASSUME Inv, CommentsPaid PROVE PostsAreAccountedFor
    OBVIOUS
  <2>1. ASSUME NEW b \in Bodies
        PROVE  Shown(b) <= Posted(b) + InFlight(b) + faults
    <3>1. faults \in Nat
      BY ReplyWorkersAssumption DEF Inv, TypeOK
    <3>2. Shown(b) \in Nat
      BY FS_CardinalityType DEF CommentsPaid, Shown
    <3>3. /\ Posted(b) \in Nat /\ InFlight(b) \in Nat
          /\ Answered(b) => 1 <= Posted(b) + InFlight(b)
      BY AnswersCount
    <3>4. /\ Answered(b) => Shown(b) <= faults + 1
          /\ ~Answered(b) => Shown(b) <= faults
      BY DEF CommentsPaid
    <3>5. CASE Answered(b)
      BY <3>1, <3>2, <3>3, <3>4, <3>5
    <3>6. CASE ~Answered(b)
      BY <3>1, <3>2, <3>3, <3>4, <3>6
    <3> QED
      BY <3>5, <3>6
  <2> QED
    BY <2>1 DEF PostsAreAccountedFor, ExtraCommentsNeedFaults, Inv
<1> QED
  BY <1>1, InvAlways, PaidAlways, PTL

=============================================================================
