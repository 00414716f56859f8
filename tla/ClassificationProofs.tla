------------------------ MODULE ClassificationProofs ------------------------
(***************************************************************************)
(* For any rules, tickets, edits and classifications: a cached filter is   *)
(* stale by a coincidence of seconds only, the order of the rule chain     *)
(* decides nothing but exceptions, tickets are unobserved exactly as the   *)
(* decisions on them say, and a job overrules no admin that it could see.  *)
(***************************************************************************)
EXTENDS Classification, TLAPS

\* A classification that is under way has a ticket.
HasTicket == \A k \in Tasks : pc[k] # "idle" => doing[k] \in Tickets

Types == TypeOK /\ HasTicket

LEMMA InitTypes == Init => Types
<1> SUFFICES ASSUME Init PROVE Types
  OBVIOUS
<1>1. 0 \in Times /\ clock \in 1..MaxTime /\ edits \in 0..MaxWrites /\ nextId \in 1..(MaxWrites + 1)
  BY ClassificationAssumption DEF Init, Times
<1>2. rules \subseteq Rules /\ checkpoint \in Times /\ audits \subseteq Audits /\ ambiguous \in BOOLEAN
  BY <1>1, ClassificationAssumption DEF Init
<1>3. /\ edit \in [Admins -> Edits \cup {NoEdit}]
      /\ cache \in [Processes \X Brands -> Entries \cup {NoEntry}]
      /\ observing \in [Tickets -> BOOLEAN] /\ closed \subseteq Tickets
  BY DEF Init
<1>4. /\ pc \in [Tasks -> {"idle", "started", "loading", "llm", "decided"}]
      /\ doing \in [Tasks -> Tickets \cup {NoTicket}]
      /\ version \in [Tasks -> Times]
      /\ over \in [Tasks -> SUBSET Ids]
      /\ audit \in [Tasks -> SUBSET Audits]
      /\ HasTicket
  BY <1>1 DEF Init, HasTicket
<1> QED
  BY <1>1, <1>2, <1>3, <1>4 DEF Types, TypeOK

\* An edit that is saved carries the second of its statement.
LEMMA SaveRuleTypes ==
  ASSUME Types, NEW a \in Admins, NEW out \in SUBSET Rules, NEW in \in SUBSET Rules,
         SaveRule(a, out, in)
  PROVE  Types'
<1>1. Edit(out, in) \in Edits
  BY ClassificationAssumption DEF Types, TypeOK, Edit, Edits, Times
<1>2. edit' \in [Admins -> Edits \cup {NoEdit}]
  BY <1>1 DEF SaveRule, Types, TypeOK
<1>3. edits' \in 0..MaxWrites
  BY ClassificationAssumption DEF SaveRule, Writes, Types, TypeOK
<1>4. cache' \in [Processes \X Brands -> Entries \cup {NoEntry}]
  BY DEF SaveRule, Types, TypeOK
<1> QED
  BY <1>2, <1>3, <1>4 DEF SaveRule, Types, TypeOK, HasTicket, tasks, ticketRows

LEMMA EditTypes ==
  ASSUME Types, NEW a \in Admins, EditRules(a)
  PROVE  Types'
<1>1. ASSUME NEW r \in Rules, CreateRule(a, r) \/ ActivateRule(a, r) \/ DeactivateRule(a, r)
      PROVE  Types'
  BY <1>1, SaveRuleTypes DEF CreateRule, ActivateRule, DeactivateRule
<1>2. ASSUME NEW r \in Rules, NEW s \in Rules, UpdateRule(a, r, s)
      PROVE  Types'
  BY <1>2, SaveRuleTypes DEF UpdateRule
<1>3. CASE CommitRule(a)
  <2>1. edit[a] \in Edits
    BY <1>3 DEF CommitRule, Types, TypeOK
  <2>2. rules' \subseteq Rules /\ checkpoint' \in Times
    BY <1>3, <2>1 DEF CommitRule, Touched, Edits, Types, TypeOK
  <2>3. edit' \in [Admins -> Edits \cup {NoEdit}] /\ ambiguous' \in BOOLEAN
    BY <1>3 DEF CommitRule, Types, TypeOK
  <2> QED
    BY <1>3, <2>2, <2>3 DEF CommitRule, Types, TypeOK, HasTicket, tasks, ticketRows
<1>4. CASE EditFails(a)
  BY <1>4 DEF EditFails, Types, TypeOK, HasTicket, tasks, ticketRows
<1> QED
  BY <1>1, <1>2, <1>3, <1>4 DEF EditRules

LEMMA IdleTypes ==
  ASSUME Types, NEW k \in Tasks, Idle(k)
  PROVE  /\ pc' \in [Tasks -> {"idle", "started", "loading", "llm", "decided"}]
         /\ doing' \in [Tasks -> Tickets \cup {NoTicket}]
         /\ version' \in [Tasks -> Times]
         /\ over' \in [Tasks -> SUBSET Ids]
         /\ audit' \in [Tasks -> SUBSET Audits]
         /\ HasTicket'
<1>1. 0 \in Times
  BY ClassificationAssumption DEF Times
<1> QED
  BY <1>1 DEF Idle, Types, TypeOK, HasTicket

LEMMA StampTypes ==
  ASSUME Types
  PROVE  Stamps \subseteq Times
  BY ClassificationAssumption DEF Stamps, Times, Types, TypeOK

LEMMA InsertTypes ==
  ASSUME Types, NEW k \in Tasks, pc[k] # "idle", NEW source \in Sources, NEW decision \in Decisions,
         Insert(k, source, decision)
  PROVE  /\ audit' \in [Tasks -> SUBSET Audits]
         /\ nextId' \in 1..(MaxWrites + 1)
         /\ pc' \in [Tasks -> {"idle", "started", "loading", "llm", "decided"}]
<1>1. nextId \in Ids
  BY ClassificationAssumption DEF Insert, Types, TypeOK, Ids, Writes
<1>0. PICK s \in Stamps :
        audit' = [audit EXCEPT ![k] =
                    {[id |-> nextId, at |-> s, ticket |-> doing[k], source |-> source,
                      decision |-> decision, forced |-> k \in Runs, over |-> over[k]]}]
  BY DEF Insert
<1> DEFINE row == [id |-> nextId, at |-> s, ticket |-> doing[k], source |-> source,
                   decision |-> decision, forced |-> k \in Runs, over |-> over[k]]
<1>2. doing[k] \in Tickets /\ over[k] \in SUBSET Ids /\ (k \in Runs) \in BOOLEAN
  BY DEF Types, TypeOK, HasTicket
<1>3. row \in Audits
  BY <1>1, <1>2, StampTypes DEF Audits
<1>4. audit' = [audit EXCEPT ![k] = {row}]
  BY <1>0
<1> HIDE DEF row
<1>5. audit' \in [Tasks -> SUBSET Audits]
  BY <1>3, <1>4 DEF Types, TypeOK
<1> QED
  BY <1>1, <1>5, ClassificationAssumption DEF Insert, Types, TypeOK, Ids

LEMMA Verdicts ==
  ASSUME NEW config, NEW t
  PROVE  ClassifyTicket(config, t) \in {"ask", "customer", "service"}
  BY DEF ClassifyTicket

LEMMA DecideTypes ==
  ASSUME Types, NEW k \in Tasks, pc[k] # "idle", NEW config, Decide(k, config)
  PROVE  /\ audit' \in [Tasks -> SUBSET Audits]
         /\ nextId' \in 1..(MaxWrites + 1)
         /\ pc' \in [Tasks -> {"idle", "started", "loading", "llm", "decided"}]
<1> DEFINE decision == ClassifyTicket(config, doing[k])
<1>1. CASE decision = "ask"
  BY <1>1 DEF Decide, Types, TypeOK
<1>2. CASE decision # "ask"
  <2>1. decision \in Decisions
    BY <1>2, Verdicts DEF Decisions
  <2>2. Insert(k, "rule", decision)
    BY <1>2 DEF Decide
  <2> HIDE DEF decision
  <2> QED
    BY <2>1, <2>2, InsertTypes DEF Sources
<1> QED
  BY <1>1, <1>2

LEMMA TaskTypes ==
  ASSUME Types, NEW k \in Tasks, pc[k] # "idle"
  PROVE  /\ doing[k] \in Tickets /\ Entry(k) \in Processes \X Brands
         /\ Entry(k)[2] = TicketBrand[doing[k]]
  BY DEF Types, TypeOK, HasTicket, Entry, ProcessOf, Processes, Brands

LEMMA ClassifyTypes ==
  ASSUME Types, NEW k \in Tasks, Classify(k)
  PROVE  Types'
<1>1. ASSUME NEW t \in Tickets, FollowAdmin(k, t)
      PROVE  Types'
  BY <1>1 DEF FollowAdmin, Types, TypeOK, HasTicket, ruleState, ticketRows, tasks
<1>2. ASSUME NEW t \in Tickets, Begin(k, t)
      PROVE  Types'
  <2> DEFINE before == {a.id : a \in {b \in Of(t) : k \in Jobs /\ b.source = "manual"}}
  <2>1. before \in SUBSET Ids
    BY DEF Of, Types, TypeOK, Audits
  <2>2. over' = [over EXCEPT ![k] = before]
    BY <1>2 DEF Begin
  <2> HIDE DEF before
  <2>3. over' \in [Tasks -> SUBSET Ids]
    BY <2>1, <2>2 DEF Types, TypeOK
  <2>4. /\ pc' \in [Tasks -> {"idle", "started", "loading", "llm", "decided"}]
        /\ doing' \in [Tasks -> Tickets \cup {NoTicket}] /\ HasTicket'
    BY <1>2 DEF Begin, Types, TypeOK, HasTicket
  <2> QED
    BY <1>2, <2>3, <2>4 DEF Begin, Types, TypeOK, ruleState, ticketRows
<1>3. CASE UseCached(k)
  <2>1. pc[k] # "idle" /\ Decide(k, cache[Entry(k)].rules)
    BY <1>3 DEF UseCached
  <2>2. /\ audit' \in [Tasks -> SUBSET Audits] /\ nextId' \in 1..(MaxWrites + 1)
        /\ pc' \in [Tasks -> {"idle", "started", "loading", "llm", "decided"}]
    BY <2>1, DecideTypes
  <2>3. \A q \in Tasks : q # k => pc'[q] = pc[q]
    BY <2>1 DEF Decide, Insert, Types, TypeOK
  <2>4. HasTicket'
    BY <1>3, <2>1, <2>3 DEF UseCached, HasTicket, Types
  <2> QED
    BY <1>3, <2>2, <2>4 DEF UseCached, Types, TypeOK, ruleState, ticketRows
<1>4. CASE ReadCheckpoint(k)
  BY <1>4 DEF ReadCheckpoint, Types, TypeOK, HasTicket, ruleState, ticketRows
<1>5. CASE LoadRules(k)
  <2> DEFINE loaded == ActiveRules(TicketBrand[doing[k]])
  <2>1. pc[k] # "idle" /\ Decide(k, loaded)
        /\ cache' = [cache EXCEPT ![Entry(k)] = [version |-> version[k], rules |-> loaded]]
    BY <1>5 DEF LoadRules
  <2>2. /\ audit' \in [Tasks -> SUBSET Audits] /\ nextId' \in 1..(MaxWrites + 1)
        /\ pc' \in [Tasks -> {"idle", "started", "loading", "llm", "decided"}]
    BY <2>1, DecideTypes
  <2>3. \A q \in Tasks : q # k => pc'[q] = pc[q]
    BY <2>1 DEF Decide, Insert, Types, TypeOK
  <2>4. HasTicket'
    BY <1>5, <2>1, <2>3 DEF LoadRules, HasTicket, Types
  <2>5. loaded \in SUBSET Rules
    BY DEF ActiveRules, Types, TypeOK
  <2> HIDE DEF loaded
  <2>6. [version |-> version[k], rules |-> loaded] \in Entries
    BY <2>5 DEF Entries, Types, TypeOK
  <2>7. cache' \in [Processes \X Brands -> Entries \cup {NoEntry}]
    BY <2>1, <2>6 DEF Types, TypeOK
  <2>8. version' \in [Tasks -> Times]
    <3>1. 0 \in Times
      BY ClassificationAssumption DEF Times
    <3> QED
      BY <1>5, <3>1 DEF LoadRules, Types, TypeOK
  <2> QED
    BY <1>5, <2>2, <2>4, <2>7, <2>8 DEF LoadRules, Types, TypeOK, ruleState, ticketRows
<1>6. CASE AskLLM(k)
  <2>1. PICK decision \in Decisions : Insert(k, "llm", decision)
    BY <1>6 DEF AskLLM
  <2>2. pc[k] # "idle"
    BY <1>6 DEF AskLLM
  <2>3. /\ audit' \in [Tasks -> SUBSET Audits] /\ nextId' \in 1..(MaxWrites + 1)
        /\ pc' \in [Tasks -> {"idle", "started", "loading", "llm", "decided"}]
    BY <2>1, <2>2, InsertTypes DEF Sources
  <2>4. \A q \in Tasks : q # k => pc'[q] = pc[q]
    BY <2>1 DEF Insert, Types, TypeOK
  <2>5. HasTicket'
    BY <1>6, <2>2, <2>4 DEF AskLLM, HasTicket, Types
  <2> QED
    BY <1>6, <2>3, <2>5 DEF AskLLM, Types, TypeOK, ruleState, ticketRows
<1>7. CASE CommitDecision(k)
  <2>1. audits' \subseteq Audits /\ observing' \in [Tickets -> BOOLEAN] /\ Idle(k)
    BY <1>7 DEF CommitDecision, Types, TypeOK
  <2> QED
    BY <1>7, <2>1, IdleTypes DEF CommitDecision, Types, TypeOK, ruleState, ticketRows
<1>8. CASE Rollback(k)
  BY <1>8, IdleTypes DEF Rollback, Types, TypeOK, ruleState, ticketRows
<1> QED
  BY <1>1, <1>2, <1>3, <1>4, <1>5, <1>6, <1>7, <1>8 DEF Classify

\* The row of an admin's decision.
LEMMA ManualRow ==
  ASSUME Types, NEW t \in Tickets, NEW d \in Decisions, DecideManually(t, d)
  PROVE  \E row \in Audits : /\ audits' = audits \cup {row} /\ row.id = nextId
                             /\ row.source = "manual" /\ row.over = {}
<1>1. PICK s \in Stamps :
        audits' = audits \cup {[id |-> nextId, at |-> s, ticket |-> t, source |-> "manual",
                               decision |-> d, forced |-> FALSE, over |-> {}]}
  BY DEF DecideManually
<1> DEFINE row == [id |-> nextId, at |-> s, ticket |-> t, source |-> "manual",
                   decision |-> d, forced |-> FALSE, over |-> {}]
<1>2. nextId \in Ids /\ s \in Times
  BY StampTypes, ClassificationAssumption DEF DecideManually, Writes, Ids, Types, TypeOK
<1>3. row \in Audits
  BY <1>2 DEF Audits, Sources
<1> QED
  BY <1>1, <1>3

LEMMA NextTypes ==
  ASSUME Types, [Next]_vars
  PROVE  Types'
<1>1. CASE Tick
  BY <1>1, ClassificationAssumption DEF Tick, Types, TypeOK, HasTicket, ruleState, ticketRows, tasks
<1>2. CASE Restart
  <2>1. cache' \in [Processes \X Brands -> Entries \cup {NoEntry}]
    BY <1>2 DEF Restart, Types, TypeOK
  <2> QED
    BY <1>2, <2>1 DEF Restart, Types, TypeOK, HasTicket, ruleState, ticketRows, tasks
<1>3. ASSUME NEW t \in Tickets, NEW d \in Decisions, DecideManually(t, d)
      PROVE  Types'
  <2>1. PICK row \in Audits : audits' = audits \cup {row} /\ row.id = nextId
                             /\ row.source = "manual" /\ row.over = {}
    BY <1>3, ManualRow
  <2>2. nextId' \in 1..(MaxWrites + 1)
    BY <1>3, ClassificationAssumption DEF DecideManually, Writes, Types, TypeOK
  <2> QED
    BY <1>3, <2>1, <2>2 DEF DecideManually, Types, TypeOK, HasTicket, ruleState, ticketRows, tasks
<1>4. CASE UNCHANGED vars
  BY <1>4 DEF vars, Types, TypeOK, HasTicket
<1>5. ASSUME NEW t \in Tickets, TicketCloses(t)
      PROVE  Types'
  BY <1>5 DEF TicketCloses, Types, TypeOK, HasTicket, ruleState, tasks
<1> QED
  BY <1>1, <1>2, <1>3, <1>4, <1>5, EditTypes, ClassifyTypes DEF Next

\* The state of the rules, the caches, the audit rows and the classifications under
\* way is well typed.
THEOREM TypeCorrect == Spec => []TypeOK
<1>1. Types /\ [Next]_vars => Types'
  BY NextTypes
<1>2. Types => TypeOK
  BY DEF Types
<1> QED
  BY <1>1, <1>2, InitTypes, PTL DEF Spec

LEMMA TypesHold == Spec => []Types
<1>1. Types /\ [Next]_vars => Types'
  BY NextTypes
<1> QED
  BY <1>1, InitTypes, PTL DEF Spec

-----------------------------------------------------------------------------
\* Until two commits have come with one second, what a process has cached is at most
\* as new as the checkpoint, and the rules of the checkpoint's version are the
\* committed ones; so is what a process is about to cache.
CachesSound ==
    ~ambiguous =>
        /\ \A c \in DOMAIN cache : cache[c] # NoEntry =>
            /\ cache[c].version <= checkpoint
            /\ cache[c].version = checkpoint => cache[c].rules = ActiveRules(c[2])
        /\ \A k \in Tasks : pc[k] = "loading" => version[k] <= checkpoint

LEMMA CachesUntouched ==
  ASSUME CachesSound, UNCHANGED <<rules, checkpoint, ambiguous, cache, version>>,
         \A k \in Tasks : pc'[k] = "loading" => pc[k] = "loading"
  PROVE  CachesSound'
  BY DEF CachesSound, ActiveRules

\* The classifications that are loading rules are the same, or one less.
LEMMA DecideEnds ==
  ASSUME Types, NEW k \in Tasks, NEW config, Decide(k, config)
  PROVE  \A q \in Tasks : pc'[q] = "loading" => pc[q] = "loading" /\ q # k
  BY DEF Decide, Insert, Types, TypeOK

LEMMA CachesStep ==
  ASSUME Types, CachesSound, [Next]_vars
  PROVE  CachesSound'
<1>0. checkpoint \in Nat /\ \A k \in Tasks : version[k] \in Nat
  BY DEF Types, TypeOK, Times
<1>1. CASE Tick \/ UNCHANGED vars
  BY <1>1, CachesUntouched DEF Tick, vars, ruleState, ticketRows, tasks
<1>2. CASE Restart
  BY <1>2 DEF Restart, CachesSound, ActiveRules, ruleState, ticketRows, tasks, Types, TypeOK
<1>3. ASSUME NEW t \in Tickets, TicketCloses(t) \/ \E d \in Decisions : DecideManually(t, d)
      PROVE  CachesSound'
  BY <1>3, CachesUntouched DEF TicketCloses, DecideManually, ruleState, tasks
<1>4. ASSUME NEW a \in Admins, NEW out, NEW in, SaveRule(a, out, in)
      PROVE  CachesSound'
  BY <1>4 DEF SaveRule, CachesSound, ActiveRules, tasks, ticketRows, Types, TypeOK
<1>5. ASSUME NEW a \in Admins, CommitRule(a)
      PROVE  CachesSound'
  <2> SUFFICES ASSUME ~ambiguous' PROVE CachesSound'
    BY DEF CachesSound
  <2>1. edit[a] \in Edits /\ checkpoint' = edit[a].at
    BY <1>5 DEF CommitRule, Touched, Types, TypeOK
  <2>2. edit[a].at \in Nat
    BY <2>1 DEF Edits, Times
  <2>3. ~ambiguous /\ ~(edit[a].at <= checkpoint)
    BY <1>5, Zenon DEF CommitRule
  <2>4. \A c \in DOMAIN cache : cache[c] # NoEntry => cache[c].version \in Nat
    BY DEF Types, TypeOK, Entries, Times
  <2> QED
    BY <1>0, <1>5, <2>1, <2>2, <2>3, <2>4 DEF CommitRule, CachesSound, tasks, ticketRows
<1>6. ASSUME NEW a \in Admins, EditFails(a)
      PROVE  CachesSound'
  BY <1>6, CachesUntouched DEF EditFails, tasks, ticketRows
<1>7. ASSUME NEW k \in Tasks, LoadRules(k)
      PROVE  CachesSound'
  <2> DEFINE loaded == ActiveRules(TicketBrand[doing[k]])
             entry == [version |-> version[k], rules |-> loaded]
  <2>1. /\ pc[k] = "loading" /\ Decide(k, loaded)
        /\ cache' = [cache EXCEPT ![Entry(k)] = entry]
        /\ UNCHANGED <<rules, checkpoint, ambiguous>>
        /\ version' = [version EXCEPT ![k] = 0]
    BY <1>7 DEF LoadRules, ruleState, ticketRows
  <2>2. Entry(k)[2] = TicketBrand[doing[k]]
    BY <2>1, TaskTypes
  <2>3. \A q \in Tasks : pc'[q] = "loading" => pc[q] = "loading"
    BY <2>1, DecideEnds
  <2>4. \A c \in DOMAIN cache : cache'[c] = IF c = Entry(k) THEN entry ELSE cache[c]
    BY <2>1 DEF Types, TypeOK
  <2>5. entry.version = version[k] /\ entry.rules = ActiveRules(Entry(k)[2])
    BY <2>2
  <2>6. \A b : ActiveRules(b)' = ActiveRules(b)
    BY <2>1 DEF ActiveRules
  <2> HIDE DEF entry, loaded
  <2>7. DOMAIN cache' = DOMAIN cache
    BY <2>1 DEF Types, TypeOK
  <2>8. \A q \in Tasks : version'[q] = (IF q = k THEN 0 ELSE version[q])
    BY <2>1 DEF Types, TypeOK
  <2> QED
    BY <1>0, <2>1, <2>3, <2>4, <2>5, <2>6, <2>7, <2>8 DEF CachesSound
<1>8. ASSUME NEW k \in Tasks, UseCached(k)
      PROVE  CachesSound'
  <2>1. Decide(k, cache[Entry(k)].rules) /\ UNCHANGED <<rules, checkpoint, ambiguous, cache, version>>
    BY <1>8 DEF UseCached, ruleState, ticketRows
  <2> QED
    BY <2>1, DecideEnds, CachesUntouched
<1>9. ASSUME NEW k \in Tasks, ReadCheckpoint(k)
      PROVE  CachesSound'
  <2>1. \A q \in Tasks : /\ pc'[q] = "loading" => q = k \/ pc[q] = "loading"
                         /\ version'[q] = (IF q = k THEN checkpoint ELSE version[q])
    BY <1>9 DEF ReadCheckpoint, Types, TypeOK
  <2> QED
    BY <1>0, <1>9, <2>1 DEF ReadCheckpoint, CachesSound, ActiveRules, ruleState, ticketRows
<1>10. ASSUME NEW k \in Tasks, AskLLM(k)
       PROVE  CachesSound'
  <2>1. \A q \in Tasks : pc'[q] = "loading" => pc[q] = "loading"
    BY <1>10 DEF AskLLM, Insert, Types, TypeOK
  <2> QED
    BY <1>10, <2>1, CachesUntouched DEF AskLLM, ruleState, ticketRows
<1>11. ASSUME NEW k \in Tasks, CommitDecision(k) \/ Rollback(k)
       PROVE  CachesSound'
  <2>1. \A q \in Tasks : /\ pc'[q] = "loading" => pc[q] = "loading" /\ version'[q] = version[q]
    BY <1>11 DEF CommitDecision, Rollback, Idle, Types, TypeOK
  <2>2. UNCHANGED <<rules, checkpoint, ambiguous, cache>>
    BY <1>11 DEF CommitDecision, Rollback, ruleState, ticketRows
  <2> QED
    BY <2>1, <2>2 DEF CachesSound, ActiveRules
<1>12. ASSUME NEW k \in Tasks, NEW t \in Tickets, FollowAdmin(k, t) \/ Begin(k, t)
       PROVE  CachesSound'
  <2>1. \A q \in Tasks : pc'[q] = "loading" => pc[q] = "loading"
    BY <1>12 DEF FollowAdmin, Begin, tasks, ticketRows, Types, TypeOK
  <2> QED
    BY <1>12, <2>1, CachesUntouched DEF FollowAdmin, Begin, ruleState, ticketRows, tasks
<1>13. ASSUME NEW k \in Tasks, Classify(k)
       PROVE  CachesSound'
  BY <1>13, <1>7, <1>8, <1>9, <1>10, <1>11, <1>12 DEF Classify
<1>14. ASSUME NEW a \in Admins, EditRules(a)
       PROVE  CachesSound'
  BY <1>14, <1>4, <1>5, <1>6 DEF EditRules, CreateRule, UpdateRule, ActivateRule, DeactivateRule
<1> QED
  BY <1>1, <1>2, <1>3, <1>13, <1>14 DEF Next

\* A filter that a process takes for valid holds the committed rules of its brand, for
\* any edits, processes and classifications, unless two commits share a second.
THEOREM CoincidenceNeeded == Spec => []StaleFilterNeedsCoincidence
<1>1. Init => CachesSound
  BY DEF Init, CachesSound
<1>2. Types /\ CachesSound /\ [Next]_vars => CachesSound'
  BY CachesStep
<1>3. CachesSound => StaleFilterNeedsCoincidence
  BY DEF CachesSound, StaleFilterNeedsCoincidence, Valid, Current
<1> QED
  BY <1>1, <1>2, <1>3, TypesHold, PTL DEF Spec

-----------------------------------------------------------------------------
\* A classification that has decided has one row to commit, of its own ticket.
Insertion(k, a) ==
    /\ audit[k] = {a}
    /\ a.ticket = doing[k]
    /\ a.forced <=> k \in Runs
    /\ a.source # "manual"

Follows ==
    /\ \A k \in Tasks : pc[k] = "decided" => \E a : Insertion(k, a)
    /\ ObservingFollowsDecisions

\* Nothing that observing depends on changes.
LEMMA NothingObserved ==
  ASSUME Follows, UNCHANGED <<audits, ticketRows>>,
         \A k \in Tasks : pc'[k] = "decided" => \E a : Insertion(k, a)'
  PROVE  Follows'
  BY DEF Follows, ObservingFollowsDecisions, Of, ticketRows

LEMMA OthersKeepTheirRow ==
  ASSUME Follows, NEW k \in Tasks, doing' = doing,
         \A q \in Tasks : q # k /\ pc'[q] = "decided" => pc[q] = "decided" /\ audit'[q] = audit[q],
         pc'[k] = "decided" => \E a : Insertion(k, a)'
  PROVE  \A q \in Tasks : pc'[q] = "decided" => \E a : Insertion(q, a)'
<1> SUFFICES ASSUME NEW q \in Tasks, q # k, pc'[q] = "decided" PROVE \E a : Insertion(q, a)'
  OBVIOUS
<1>1. PICK a : Insertion(q, a)
  BY DEF Follows
<1>2. Insertion(q, a)'
  BY <1>1 DEF Insertion
<1> QED
  BY <1>2

LEMMA InsertFollows ==
  ASSUME Types, Follows, NEW k \in Tasks, NEW source \in {"rule", "llm"}, NEW decision,
         Insert(k, source, decision), UNCHANGED <<audits, ticketRows, doing>>
  PROVE  Follows'
<1>1. PICK row : /\ audit' = [audit EXCEPT ![k] = {row}]
                 /\ row.ticket = doing[k] /\ (row.forced <=> k \in Runs) /\ row.source # "manual"
  <2>0. PICK s \in Stamps :
          audit' = [audit EXCEPT ![k] =
                      {[id |-> nextId, at |-> s, ticket |-> doing[k], source |-> source,
                        decision |-> decision, forced |-> k \in Runs, over |-> over[k]]}]
    BY DEF Insert
  <2> DEFINE inserted == [id |-> nextId, at |-> s, ticket |-> doing[k], source |-> source,
                          decision |-> decision, forced |-> k \in Runs, over |-> over[k]]
  <2>1. audit' = [audit EXCEPT ![k] = {inserted}]
    BY <2>0
  <2>2. /\ inserted.ticket = doing[k] /\ (inserted.forced <=> k \in Runs)
        /\ inserted.source # "manual"
    OBVIOUS
  <2> HIDE DEF inserted
  <2> QED
    BY <2>1, <2>2
<1>2. pc' = [pc EXCEPT ![k] = "decided"]
  BY DEF Insert
<1>3. Insertion(k, row)'
  BY <1>1 DEF Insertion, Types, TypeOK
<1>4. \A q \in Tasks : q # k => pc'[q] = pc[q] /\ audit'[q] = audit[q]
  BY <1>1, <1>2 DEF Types, TypeOK
<1> QED
  BY <1>3, <1>4, OthersKeepTheirRow, NothingObserved

LEMMA DecideFollows ==
  ASSUME Types, Follows, NEW k \in Tasks, NEW config, pc[k] # "idle",
         Decide(k, config), UNCHANGED <<audits, ticketRows, doing>>
  PROVE  Follows'
<1>1. CASE ClassifyTicket(config, doing[k]) = "ask"
  <2>1. \A q \in Tasks : pc'[q] = "decided" => pc[q] = "decided" /\ audit'[q] = audit[q]
    BY <1>1 DEF Decide, Types, TypeOK
  <2>2. pc'[k] # "decided"
    BY <1>1 DEF Decide, Types, TypeOK
  <2> QED
    BY <2>1, <2>2, OthersKeepTheirRow, NothingObserved
<1>2. CASE ClassifyTicket(config, doing[k]) # "ask"
  BY <1>2, InsertFollows DEF Decide
<1> QED
  BY <1>1, <1>2

\* A task that ends, alone or having committed its row.
LEMMA OthersStand ==
  ASSUME Types, Follows, NEW k \in Tasks, Idle(k)
  PROVE  \A q \in Tasks : pc'[q] = "decided" => \E a : Insertion(q, a)'
<1> SUFFICES ASSUME NEW q \in Tasks, pc'[q] = "decided" PROVE \E a : Insertion(q, a)'
  OBVIOUS
<1>1. pc[q] = "decided" /\ audit'[q] = audit[q] /\ doing'[q] = doing[q]
  BY DEF Idle, Types, TypeOK
<1>2. PICK a : Insertion(q, a)
  BY <1>1 DEF Follows
<1>3. Insertion(q, a)'
  BY <1>1, <1>2 DEF Insertion
<1> QED
  BY <1>3

LEMMA CommitFollows ==
  ASSUME Types, Follows, NEW k \in Tasks, CommitDecision(k)
  PROVE  Follows'
<1>1. PICK a : Insertion(k, a)
  BY DEF CommitDecision, Follows
<1>2. audits' = audits \cup {a}
  BY <1>1 DEF CommitDecision, Insertion
<1>3. k \in Jobs <=> k \notin Runs
  BY ClassificationAssumption DEF Tasks
<1>4. \A q \in Tasks : pc'[q] = "decided" => \E b : Insertion(q, b)'
  BY OthersStand DEF CommitDecision
<1>0. closed' = closed
  BY DEF CommitDecision
<1>5. doing[k] \in Tickets
  BY TaskTypes DEF CommitDecision
<1>6. CASE k \in Jobs /\ a.decision = "service"
  <2>1. \A t \in Tickets : observing'[t] = (IF t = doing[k] THEN FALSE ELSE observing[t])
    BY <1>1, <1>6 DEF CommitDecision, Insertion, Unobserves, Types, TypeOK
  <2>2. \A b \in audits : b.ticket \in Tickets
    BY DEF Types, TypeOK, Audits
  <2>3. ObservingFollowsDecisions'
    BY <1>0, <1>1, <1>2, <1>5, <1>6, <2>1, <2>2 DEF Follows, ObservingFollowsDecisions, Of, Insertion
  <2> QED
    BY <1>4, <2>3 DEF Follows
<1>7. CASE ~(k \in Jobs /\ a.decision = "service")
  <2>1. observing' = observing
    BY <1>1, <1>7 DEF CommitDecision, Insertion, Unobserves
  <2>2. ObservingFollowsDecisions'
    BY <1>0, <1>1, <1>2, <1>3, <1>7, <2>1 DEF Follows, ObservingFollowsDecisions, Of, Insertion
  <2> QED
    BY <1>4, <2>2 DEF Follows
<1> QED
  BY <1>6, <1>7

LEMMA AdminFollowed ==
  ASSUME Types, Follows, NEW k \in Tasks, NEW t \in Tickets, FollowAdmin(k, t)
  PROVE  Follows'
<1>1. \A q \in Tasks : pc'[q] = "decided" => \E a : Insertion(q, a)'
  BY DEF FollowAdmin, tasks, ticketRows, Follows, Insertion
<1>2. CASE observing' = observing
  BY <1>1, <1>2, NothingObserved DEF FollowAdmin, ticketRows
<1>3. CASE observing' # observing
  <2>1. PICK d \in Latest(t) : d.decision = "service"
    BY <1>3 DEF FollowAdmin, DecidedByAdmin
  <2>2. d \in Of(t) /\ audits' = audits /\ closed' = closed
    BY <2>1 DEF Latest, FollowAdmin
  <2>3. observing' = [observing EXCEPT ![t] = FALSE]
    BY <1>3 DEF FollowAdmin
  <2>4. \A u \in Tickets : observing'[u] = (IF u = t THEN FALSE ELSE observing[u])
    BY <2>3 DEF Types, TypeOK
  <2>5. \A b \in audits : b.ticket \in Tickets
    BY DEF Types, TypeOK, Audits
  <2>6. ObservingFollowsDecisions'
    BY <2>1, <2>2, <2>4, <2>5 DEF Follows, ObservingFollowsDecisions, Of
  <2> QED
    BY <1>1, <2>6 DEF Follows
<1> QED
  BY <1>2, <1>3

LEMMA FollowsStep ==
  ASSUME Types, Follows, [Next]_vars
  PROVE  Follows'
<1>1. CASE Tick \/ Restart \/ UNCHANGED vars
  BY <1>1, NothingObserved DEF Tick, Restart, vars, tasks, ticketRows, Follows, Insertion
<1>2. ASSUME NEW a \in Admins, EditRules(a)
      PROVE  Follows'
  <2>1. UNCHANGED <<audits, ticketRows, tasks>>
    BY <1>2 DEF EditRules, CreateRule, UpdateRule, ActivateRule, DeactivateRule, SaveRule,
                CommitRule, EditFails
  <2> QED
    BY <2>1, NothingObserved DEF tasks, ticketRows, Follows, Insertion
<1>3. ASSUME NEW t \in Tickets, NEW d \in Decisions, DecideManually(t, d)
      PROVE  Follows'
  <2>0. PICK row \in Audits : audits' = audits \cup {row} /\ row.id = nextId
                             /\ row.source = "manual" /\ row.over = {}
    BY <1>3, ManualRow
  <2>1. audits' = audits \cup {row} /\ UNCHANGED <<observing, closed, tasks>> /\ row.source = "manual"
    BY <1>3, <2>0 DEF DecideManually, ticketRows
  <2>2. ObservingFollowsDecisions'
    BY <2>1 DEF Follows, ObservingFollowsDecisions, Of
  <2> QED
    BY <2>1, <2>2 DEF Follows, Insertion, tasks, ticketRows
<1>4. ASSUME NEW k \in Tasks, NEW t \in Tickets, Begin(k, t)
      PROVE  Follows'
  <2>1. \A q \in Tasks : /\ pc'[q] = "decided" => pc[q] = "decided"
                         /\ pc[q] = "decided" => audit'[q] = audit[q] /\ doing'[q] = doing[q]
    BY <1>4 DEF Begin, Types, TypeOK
  <2>2. \A q \in Tasks : pc'[q] = "decided" => \E a : Insertion(q, a)'
    BY <2>1 DEF Follows, Insertion
  <2> QED
    BY <1>4, <2>2, NothingObserved DEF Begin
<1>5. ASSUME NEW k \in Tasks, UseCached(k) \/ LoadRules(k)
      PROVE  Follows'
  <2>1. PICK config : Decide(k, config)
    BY <1>5 DEF UseCached, LoadRules
  <2> QED
    BY <1>5, <2>1, DecideFollows DEF UseCached, LoadRules
<1>6. ASSUME NEW k \in Tasks, ReadCheckpoint(k)
      PROVE  Follows'
  <2>1. \A q \in Tasks : pc'[q] = "decided" => pc[q] = "decided"
    BY <1>6 DEF ReadCheckpoint, Types, TypeOK
  <2> QED
    BY <1>6, <2>1, NothingObserved DEF ReadCheckpoint, Follows, Insertion
<1>7. ASSUME NEW k \in Tasks, AskLLM(k)
      PROVE  Follows'
  BY <1>7, InsertFollows DEF AskLLM
<1>8. ASSUME NEW k \in Tasks, Rollback(k)
      PROVE  Follows'
  BY <1>8, OthersStand, NothingObserved DEF Rollback
<1>9. ASSUME NEW k \in Tasks, Classify(k)
      PROVE  Follows'
  BY <1>4, <1>5, <1>6, <1>7, <1>8, <1>9, AdminFollowed, CommitFollows DEF Classify
<1>10. ASSUME NEW t \in Tickets, TicketCloses(t)
       PROVE  Follows'
  <2>1. \A u \in Tickets : observing'[u] = (IF u = t THEN FALSE ELSE observing[u])
    BY <1>10 DEF TicketCloses, Types, TypeOK
  <2>2. \A b \in audits : b.ticket \in Tickets
    BY DEF Types, TypeOK, Audits
  <2>3. closed' = closed \cup {t} /\ UNCHANGED <<audits, tasks>>
    BY <1>10 DEF TicketCloses
  <2>4. ObservingFollowsDecisions'
    BY <2>1, <2>2, <2>3 DEF Follows, ObservingFollowsDecisions, Of
  <2> QED
    BY <2>3, <2>4 DEF Follows, Insertion, tasks
<1> QED
  BY <1>1, <1>2, <1>3, <1>9, <1>10 DEF Next

LEMMA FollowsHold == Spec => []Follows
<1>1. Init => Follows
  BY DEF Init, Follows, ObservingFollowsDecisions
<1>2. Types /\ Follows /\ [Next]_vars => Follows'
  BY FollowsStep
<1> QED
  BY <1>1, <1>2, TypesHold, PTL DEF Spec

\* A job's service decision leaves no ticket observed, and a ticket is unobserved only
\* if it was decided to be service or has been closed, whatever admins decide, runs are
\* forced and processes fail.
THEOREM ObservingFollows == Spec => []ObservingFollowsDecisions
<1>1. Follows => ObservingFollowsDecisions
  BY DEF Follows
<1> QED
  BY <1>1, FollowsHold, PTL

-----------------------------------------------------------------------------
LEMMA FirstIsLeast ==
  ASSUME NEW S \in SUBSET (1..7), S # {}
  PROVE  FirstOf(S) \in S /\ \A j \in S : FirstOf(S) <= j
<1>1. \E i \in S : \A j \in S : i <= j
  <2>1. CASE 1 \in S
    BY <2>1
  <2>2. CASE 2 \in S /\ 1 \notin S
    BY <2>2
  <2>3. CASE 3 \in S /\ 1 \notin S /\ 2 \notin S
    BY <2>3
  <2>4. CASE 4 \in S /\ 1 \notin S /\ 2 \notin S /\ 3 \notin S
    BY <2>4
  <2>5. CASE S \subseteq 5..7 /\ 5 \in S
    BY <2>5
  <2>6. CASE S \subseteq 6..7 /\ 6 \in S
    BY <2>6
  <2>7. CASE S \subseteq {7}
    <3>1. 7 \in S
      BY <2>7
    <3> QED
      BY <2>7, <3>1
  <2> QED
    BY <2>1, <2>2, <2>3, <2>4, <2>5, <2>6, <2>7
<1> QED
  BY <1>1 DEF FirstOf

LEMMA ChainEntries ==
    /\ Len(Chain) = 7
    /\ Chain[1] = "api_exception" /\ Chain[2] = "customer_body_exception"
    /\ Chain[3] = "sender_strict" /\ Chain[4] = "subject_pattern" /\ Chain[5] = "tag_service"
    /\ Chain[6] = "spam_subject" /\ Chain[7] = "spam_body"
  BY DEF Chain

LEMMA OrderDecidesNothing ==
  ASSUME NEW config, NEW t
  PROVE  OrderIndependent(config, t)
<1> DEFINE F(i) == RuleFires(Chain[i], config, t)
           excepted == Fires({"api_allowed_pattern", "customer_body_pattern"}, config, t)
           service == t \in Automated \/ Fires(ServiceKindsFor(t), config, t)
<1>1. Firing(config, t) \in SUBSET (1..7) /\ \A i \in 1..7 : i \in Firing(config, t) <=> F(i)
  BY ChainEntries DEF Firing
<1>2. /\ F(1) <=> Fires({"api_allowed_pattern"}, config, t)
      /\ F(2) <=> Fires({"customer_body_pattern"}, config, t)
      /\ F(3) <=> SenderStrict(config, t)
      /\ F(4) <=> Fires({"subject_pattern"}, config, t)
      /\ F(5) <=> Fires(TagKinds, config, t)
      /\ F(6) <=> SpamMarketing(config, t)
      /\ F(7) <=> Fires({"spam_body_pattern"}, config, t)
  BY ChainEntries DEF RuleFires
<1>3. excepted <=> F(1) \/ F(2)
  BY <1>2 DEF Fires
<1>4. service <=> F(3) \/ F(4) \/ F(5) \/ F(6) \/ F(7)
  BY <1>2 DEF Fires, ServiceKindsFor, SenderStrict, SpamMarketing
<1> HIDE DEF F, excepted, service
<1>5. CASE excepted
  <2>1. Firing(config, t) # {} /\ \E i \in {1, 2} : i \in Firing(config, t)
    BY <1>1, <1>3, <1>5
  <2>2. FirstOf(Firing(config, t)) \in {1, 2}
    BY <1>1, <2>1, FirstIsLeast
  <2>3. Chain[FirstOf(Firing(config, t))] \in Exceptions
    BY <2>2, ChainEntries DEF Exceptions
  <2> QED
    BY <1>5, <2>1, <2>3 DEF OrderIndependent, ClassifyTicket, excepted
<1>6. CASE ~excepted /\ service
  <2>1. Firing(config, t) # {} /\ 1 \notin Firing(config, t) /\ 2 \notin Firing(config, t)
    BY <1>1, <1>3, <1>4, <1>6
  <2>2. FirstOf(Firing(config, t)) \in 3..7
    BY <1>1, <2>1, FirstIsLeast
  <2>3. Chain[FirstOf(Firing(config, t))] \notin Exceptions
    BY <2>2, ChainEntries DEF Exceptions
  <2> QED
    BY <1>6, <2>1, <2>3 DEF OrderIndependent, ClassifyTicket, excepted, service
<1>7. CASE ~excepted /\ ~service
  <2>1. Firing(config, t) = {}
    BY <1>1, <1>3, <1>4, <1>7
  <2> QED
    BY <1>7, <2>1 DEF OrderIndependent, ClassifyTicket, excepted, service
<1> QED
  BY <1>5, <1>6, <1>7

\* For any active rules and any ticket, exceptions come first and the
\* order of the rest of the chain decides nothing.
THEOREM OrderIsSound == Spec => []ChainOrderIsSound
<1>1. ChainOrderIsSound
  BY OrderDecidesNothing DEF ChainOrderIsSound
<1> QED
  BY <1>1, PTL


-----------------------------------------------------------------------------
\* The sequence numbers the audit rows, those in flight included.
Numbered ==
    /\ \A a \in audits : a.id < nextId
    /\ \A a, b \in audits : a.id = b.id => a = b
    /\ \A k \in Tasks : \A a \in audit[k] :
        /\ a.id < nextId
        /\ \A b \in audits : b.id # a.id
        /\ \A q \in Tasks : \A b \in audit[q] : q # k => b.id # a.id

HaveLatest == \A t \in Tickets : Of(t) # {} => Latest(t) # {}

\* Among these rows of a ticket, the admin's decision with each of these ids has been
\* superseded, by a row with an id below the bound.
Overruled(rows, ids, t, bound) ==
    \A i \in ids : \E m, f \in rows :
        m.id = i /\ m.ticket = t /\ f.ticket = t /\ Supersedes(f, m) /\ f.id < bound

\* A job begins only when the admins' decisions that it could see have been superseded
\* already.
Overtaken ==
    /\ \A a \in audits : Overruled(audits, a.over, a.ticket, a.id)
    /\ \A k \in Tasks : Overruled(audits, over[k], doing[k], nextId)
    /\ \A k \in Tasks : \A a \in audit[k] : Overruled(audits, a.over, a.ticket, a.id)

History == Numbered /\ HaveLatest /\ Overtaken

LEMMA RowTypes ==
  ASSUME Types
  PROVE  /\ nextId \in Nat
         /\ \A a \in audits : a.id \in Nat /\ a.at \in Nat /\ a.ticket \in Tickets
         /\ \A k \in Tasks : \A a \in audit[k] : a.id \in Nat /\ a.ticket \in Tickets
<1>1. \A a \in Audits : a.id \in Nat /\ a.at \in Nat /\ a.ticket \in Tickets
  BY DEF Audits, Ids, Times
<1>2. \A k \in Tasks : audit[k] \subseteq Audits
  BY DEF Types, TypeOK
<1> QED
  BY <1>1, <1>2 DEF Types, TypeOK

\* What has been superseded stays so, as rows are only added.
LEMMA OverruledForEver ==
  ASSUME NEW rows, NEW more, NEW ids, NEW t, NEW bound, rows \subseteq more,
         Overruled(rows, ids, t, bound)
  PROVE  Overruled(more, ids, t, bound)
  BY DEF Overruled

\* No row is inserted or committed: the tasks keep what they have, or give it up.
LEMMA HistoryKept ==
  ASSUME Types, History, UNCHANGED <<audits, nextId>>,
         \A q \in Tasks : over'[q] = {} \/ (over'[q] = over[q] /\ doing'[q] = doing[q]),
         \A q \in Tasks : audit'[q] = {} \/ audit'[q] = audit[q]
  PROVE  History'
<1>1. Numbered'
  BY DEF History, Numbered
<1>2. HaveLatest'
  BY DEF History, HaveLatest, Latest, Of
<1>3. \A k \in Tasks : Overruled(audits, over'[k], doing'[k], nextId)
  BY DEF History, Overtaken, Overruled
<1>4. \A k \in Tasks : \A a \in audit'[k] : Overruled(audits, a.over, a.ticket, a.id)
  BY DEF History, Overtaken
<1> QED
  BY <1>1, <1>2, <1>3, <1>4 DEF History, Overtaken

LEMMA LexicographicTotal ==
  ASSUME NEW s \in Nat, NEW t \in Nat, NEW i \in Nat, NEW j \in Nat, i # j
  PROVE  (s > t \/ (s = t /\ i > j)) \/ (t > s \/ (t = s /\ j > i))
<1>1. (s > t \/ t > s \/ s = t) /\ (i > j \/ j > i)
  OBVIOUS
<1> QED
  BY <1>1, Zenon

LEMMA LexicographicTransitive ==
  ASSUME NEW s \in Nat, NEW t \in Nat, NEW u \in Nat, NEW i \in Nat, NEW j \in Nat, NEW k \in Nat
  PROVE  (s > t \/ (s = t /\ i > j)) => ((t > u \/ (t = u /\ j > k)) => (s > u \/ (s = u /\ i > k)))
<1>1. CASE s > t
  BY <1>1
<1>2. CASE s = t /\ i > j
  BY <1>2
<1> QED
  BY <1>1, <1>2

\* Rows with different ids are ordered by their seconds and then by their ids.
LEMMA LaterOrders ==
  ASSUME NEW a, NEW b, NEW c,
         a.id \in Nat, b.id \in Nat, c.id \in Nat, a.at \in Nat, b.at \in Nat, c.at \in Nat
  PROVE  /\ a.id # b.id => Later(a, b) \/ Later(b, a)
         /\ Later(a, b) /\ Later(b, c) => Later(a, c)
<1>1. a.id # b.id => Later(a, b) \/ Later(b, a)
  BY LexicographicTotal, Zenon DEF Later
<1>2. ASSUME Later(a, b), Later(b, c)
      PROVE  Later(a, c)
  <2>1. a.at > b.at \/ (a.at = b.at /\ a.id > b.id)
    BY <1>2, Zenon DEF Later
  <2>2. b.at > c.at \/ (b.at = c.at /\ b.id > c.id)
    BY <1>2, Zenon DEF Later
  <2>3. a.at > c.at \/ (a.at = c.at /\ a.id > c.id)
    <3> DEFINE P(x, y) == x.at > y.at \/ (x.at = y.at /\ x.id > y.id)
    <3>1. P(a, b) => (P(b, c) => P(a, c))
      BY LexicographicTransitive
    <3> QED
      BY <2>1, <2>2, <3>1
  <2> QED
    BY <2>3, Zenon DEF Later
<1> QED
  BY <1>1, <1>2

\* A committed row is the latest of its ticket, or leaves the latest as it was.
LEMMA LatestAfter ==
  ASSUME Types, History, NEW row \in Audits, \A b \in audits : b.id # row.id,
         audits' = audits \cup {row}
  PROVE  HaveLatest'
<1> SUFFICES ASSUME NEW t \in Tickets, Of(t)' # {}
             PROVE  \E a \in Of(t)' : \A b \in Of(t)' \ {a} : Later(a, b)
  BY DEF HaveLatest, Latest
<1>0. \A b \in audits \cup {row} : b.id \in Nat /\ b.at \in Nat
  BY RowTypes DEF Audits, Ids, Times
<1>1. CASE row.ticket # t
  <2>1. Of(t)' = Of(t)
    BY <1>1 DEF Of
  <2>2. PICK a \in Latest(t) : TRUE
    BY <2>1 DEF History, HaveLatest
  <2> QED
    BY <2>1, <2>2 DEF Latest
<1>2. CASE row.ticket = t /\ Of(t) = {}
  <2>1. Of(t)' = {row}
    BY <1>2 DEF Of
  <2> QED
    BY <2>1
<1>3. CASE row.ticket = t /\ Of(t) # {}
  <2>1. Of(t)' = Of(t) \cup {row} /\ Of(t) \subseteq audits
    BY <1>3 DEF Of
  <2>2. PICK a \in Latest(t) : TRUE
    BY <1>3 DEF History, HaveLatest
  <2>3. a \in Of(t) /\ \A b \in Of(t) \ {a} : Later(a, b)
    BY <2>2 DEF Latest
  <2>4. CASE Later(a, row)
    BY <2>1, <2>3, <2>4
  <2>5. CASE Later(row, a)
    <3>1. ASSUME NEW b \in Of(t)
          PROVE  Later(row, b)
      <4>1. b = a \/ Later(a, b)
        BY <2>3
      <4> QED
        BY <1>0, <2>1, <2>3, <2>5, <4>1, LaterOrders
    <3> QED
      BY <2>1, <3>1
  <2>6. Later(a, row) \/ Later(row, a)
    <3>1. a.id # row.id /\ a \in audits
      BY <2>1, <2>3
    <3> QED
      BY <1>0, <3>1, LaterOrders
  <2> QED
    BY <2>4, <2>5, <2>6
<1> QED
  BY <1>1, <1>2, <1>3

\* A job that begins could see no admin's decision but superseded ones.
LEMMA BeginHistory ==
  ASSUME Types, History, NEW k \in Tasks, NEW t \in Tickets, Begin(k, t)
  PROVE  History'
<1> DEFINE before == {a.id : a \in {b \in Of(t) : k \in Jobs /\ b.source = "manual"}}
<1>1. UNCHANGED <<audits, nextId, audit>>
  BY DEF Begin
<1>2. over' = [over EXCEPT ![k] = before] /\ doing' = [doing EXCEPT ![k] = t]
  BY DEF Begin
<1>3. Overruled(audits, before, t, nextId)
  <2> SUFFICES ASSUME NEW i \in before
               PROVE  \E m, f \in audits :
                        /\ m.id = i /\ m.ticket = t /\ f.ticket = t
                        /\ Supersedes(f, m) /\ f.id < nextId
    BY DEF Overruled
  <2>1. PICK m \in Of(t) : i = m.id /\ k \in Jobs /\ m.source = "manual"
    OBVIOUS
  <2>2. ~DecidedByAdmin(t)
    BY <2>1, ClassificationAssumption DEF Begin
  <2>3. PICK f \in Latest(t) : TRUE
    BY <2>1 DEF History, HaveLatest
  <2>4. f \in Of(t) /\ f.source # "manual" /\ Later(f, m)
    BY <2>1, <2>2, <2>3 DEF DecidedByAdmin, Latest
  <2>5. f \in audits /\ f.ticket = t /\ m \in audits /\ m.ticket = t
    BY <2>1, <2>4 DEF Of
  <2>6. CASE i \notin f.over
    BY <2>1, <2>4, <2>5, <2>6 DEF Supersedes, History, Numbered
  <2>7. CASE i \in f.over
    <3>1. Overruled(audits, f.over, f.ticket, f.id)
      BY <2>5 DEF History, Overtaken
    <3>2. PICK n, g \in audits :
            n.id = i /\ n.ticket = t /\ g.ticket = t /\ Supersedes(g, n)
      BY <2>5, <2>7, <3>1 DEF Overruled
    <3> QED
      BY <3>2 DEF History, Numbered
  <2> QED
    BY <2>6, <2>7
<1> HIDE DEF before
<1>4. \A q \in Tasks : Overruled(audits, over'[q], doing'[q], nextId)
  BY <1>2, <1>3 DEF History, Overtaken, Types, TypeOK
<1>5. Numbered' /\ HaveLatest'
  BY <1>1 DEF History, Numbered, HaveLatest, Latest, Of
<1> QED
  BY <1>1, <1>4, <1>5 DEF History, Overtaken

\* The row that a task inserts takes the next id.
LEMMA InsertHistory ==
  ASSUME Types, History, NEW k \in Tasks, NEW source, NEW decision,
         Insert(k, source, decision), UNCHANGED <<audits, doing, over>>
  PROVE  History'
<1>1. PICK row : /\ audit' = [audit EXCEPT ![k] = {row}]
                 /\ row.id = nextId /\ row.ticket = doing[k] /\ row.over = over[k]
  <2>0. PICK s \in Stamps :
          audit' = [audit EXCEPT ![k] =
                      {[id |-> nextId, at |-> s, ticket |-> doing[k], source |-> source,
                        decision |-> decision, forced |-> k \in Runs, over |-> over[k]]}]
    BY DEF Insert
  <2> DEFINE inserted == [id |-> nextId, at |-> s, ticket |-> doing[k], source |-> source,
                          decision |-> decision, forced |-> k \in Runs, over |-> over[k]]
  <2>1. audit' = [audit EXCEPT ![k] = {inserted}]
    BY <2>0
  <2>2. inserted.id = nextId /\ inserted.ticket = doing[k] /\ inserted.over = over[k]
    OBVIOUS
  <2> HIDE DEF inserted
  <2> QED
    BY <2>1, <2>2
<1>2. nextId \in Nat /\ nextId' = nextId + 1
  BY RowTypes DEF Insert
<1>3. \A q \in Tasks : audit'[q] = IF q = k THEN {row} ELSE audit[q]
  BY <1>1 DEF Types, TypeOK
<1>4. /\ \A a \in audits : a.id \in Nat /\ a.id < nextId
      /\ \A q \in Tasks : \A a \in audit[q] : a.id \in Nat /\ a.id < nextId
  BY RowTypes DEF History, Numbered
<1>5. /\ \A a \in audits : a.id < nextId' /\ a.id # nextId
      /\ \A q \in Tasks : \A a \in audit[q] : a.id < nextId' /\ a.id # nextId
      /\ row.id < nextId'
  BY <1>1, <1>2, <1>4
<1>6. Numbered'
  BY <1>1, <1>3, <1>5 DEF History, Numbered
<1>7. HaveLatest'
  BY DEF History, HaveLatest, Latest, Of
<1>8. \A q \in Tasks : Overruled(audits, over'[q], doing'[q], nextId')
  BY <1>5 DEF History, Overtaken, Overruled
<1>9. \A q \in Tasks : \A a \in audit'[q] : Overruled(audits, a.over, a.ticket, a.id)
  BY <1>1, <1>3 DEF History, Overtaken
<1> QED
  BY <1>6, <1>7, <1>8, <1>9 DEF History, Overtaken

LEMMA DecideHistory ==
  ASSUME Types, History, NEW k \in Tasks, NEW config, Decide(k, config),
         UNCHANGED <<audits, doing, over>>
  PROVE  History'
<1>1. CASE ClassifyTicket(config, doing[k]) = "ask"
  BY <1>1, HistoryKept DEF Decide
<1>2. CASE ClassifyTicket(config, doing[k]) # "ask"
  BY <1>2, InsertHistory DEF Decide
<1> QED
  BY <1>1, <1>2

\* A row is committed, whatever the tasks then give up.
LEMMA CommitHistory ==
  ASSUME Types, History, NEW row \in Audits, audits' = audits \cup {row},
         \A b \in audits : b.id # row.id,
         Overruled(audits, row.over, row.ticket, row.id),
         nextId' \in Nat, nextId <= nextId', row.id < nextId',
         \A q \in Tasks : audit'[q] = {} \/ (audit'[q] = audit[q] /\ \A b \in audit[q] : b.id # row.id),
         \A q \in Tasks : over'[q] = {} \/ (over'[q] = over[q] /\ doing'[q] = doing[q])
  PROVE  History'
<1>1. /\ nextId \in Nat
      /\ \A a \in audits : a.id \in Nat /\ a.id < nextId
      /\ \A q \in Tasks : \A a \in audit[q] : a.id \in Nat /\ a.id < nextId
  BY RowTypes DEF History, Numbered
<1>2. /\ \A a \in audits : a.id < nextId'
      /\ \A q \in Tasks : \A a \in audit[q] : a.id < nextId'
  BY <1>1
<1>3. Numbered'
  <2>1. \A a \in audits' : a.id < nextId'
    BY <1>2
  <2>2. ASSUME NEW q \in Tasks, NEW a \in audit'[q]
        PROVE  /\ a.id < nextId'
               /\ \A b \in audits' : b.id # a.id
               /\ \A s \in Tasks : \A b \in audit'[s] : s # q => b.id # a.id
    <3>1. a \in audit[q] /\ a.id # row.id
      BY <2>2
    <3>2. \A b \in audits : b.id # a.id
      BY <3>1 DEF History, Numbered
    <3>3. \A s \in Tasks : \A b \in audit[s] : s # q => b.id # a.id
      BY <3>1 DEF History, Numbered
    <3>4. \A s \in Tasks : \A b \in audit'[s] : b \in audit[s]
      OBVIOUS
    <3> QED
      BY <1>2, <3>1, <3>2, <3>3, <3>4
  <2>3. \A a, b \in audits' : a.id = b.id => a = b
    BY DEF History, Numbered
  <2> QED
    BY <2>1, <2>2, <2>3 DEF Numbered
<1>4. HaveLatest'
  BY LatestAfter
<1>5. \A ids, t, bound : Overruled(audits, ids, t, bound) => Overruled(audits', ids, t, bound)
  BY OverruledForEver
<1>6. \A a \in audits' : Overruled(audits', a.over, a.ticket, a.id)
  BY <1>5 DEF History, Overtaken
<1>7. \A q \in Tasks : Overruled(audits', over'[q], doing'[q], nextId')
  <2> SUFFICES ASSUME NEW q \in Tasks, over'[q] = over[q], doing'[q] = doing[q]
               PROVE  Overruled(audits', over'[q], doing'[q], nextId')
    BY DEF Overruled
  <2>1. Overruled(audits, over[q], doing[q], nextId)
    BY DEF History, Overtaken
  <2>2. Overruled(audits, over[q], doing[q], nextId')
    BY <1>2, <2>1 DEF Overruled
  <2> QED
    BY <1>5, <2>2
<1>8. \A q \in Tasks : \A a \in audit'[q] : Overruled(audits', a.over, a.ticket, a.id)
  BY <1>5 DEF History, Overtaken
<1> QED
  BY <1>3, <1>4, <1>6, <1>7, <1>8 DEF History, Overtaken

LEMMA HistoryStep ==
  ASSUME Types, Follows, History, [Next]_vars
  PROVE  History'
<1>1. CASE Tick \/ Restart \/ UNCHANGED vars
  BY <1>1, HistoryKept DEF Tick, Restart, vars, tasks
<1>2. ASSUME NEW a \in Admins, EditRules(a)
      PROVE  History'
  <2>1. UNCHANGED <<audits, nextId, tasks>>
    BY <1>2 DEF EditRules, CreateRule, UpdateRule, ActivateRule, DeactivateRule, SaveRule,
                CommitRule, EditFails
  <2> QED
    BY <2>1, HistoryKept DEF tasks
<1>3. ASSUME NEW t \in Tickets, NEW d \in Decisions, DecideManually(t, d)
      PROVE  History'
  <2>1. PICK row \in Audits : audits' = audits \cup {row} /\ row.id = nextId
                             /\ row.source = "manual" /\ row.over = {}
    BY <1>3, ManualRow
  <2>2. UNCHANGED tasks /\ nextId' = nextId + 1
    BY <1>3 DEF DecideManually
  <2>3. nextId \in Nat /\ nextId' \in Nat /\ nextId <= nextId' /\ row.id < nextId'
    BY <2>1, <2>2, RowTypes
  <2>4. /\ \A b \in audits : b.id \in Nat /\ b.id < nextId
        /\ \A q \in Tasks : \A b \in audit[q] : b.id \in Nat /\ b.id < nextId
    BY RowTypes DEF History, Numbered
  <2>5. /\ \A b \in audits : b.id # row.id
        /\ \A q \in Tasks : \A b \in audit[q] : b.id # row.id
    BY <2>1, <2>3, <2>4
  <2>6. Overruled(audits, row.over, row.ticket, row.id)
    BY <2>1 DEF Overruled
  <2> QED
    BY <2>1, <2>2, <2>3, <2>5, <2>6, CommitHistory DEF tasks
<1>4. ASSUME NEW k \in Tasks, UseCached(k) \/ LoadRules(k)
      PROVE  History'
  <2>1. PICK config : Decide(k, config)
    BY <1>4 DEF UseCached, LoadRules
  <2> QED
    BY <1>4, <2>1, DecideHistory DEF UseCached, LoadRules
<1>5. ASSUME NEW k \in Tasks, ReadCheckpoint(k)
      PROVE  History'
  BY <1>5, HistoryKept DEF ReadCheckpoint
<1>6. ASSUME NEW k \in Tasks, AskLLM(k)
      PROVE  History'
  BY <1>6, InsertHistory DEF AskLLM
<1>7. ASSUME NEW k \in Tasks, Rollback(k)
      PROVE  History'
  <2>1. \A q \in Tasks : /\ over'[q] = {} \/ (over'[q] = over[q] /\ doing'[q] = doing[q])
                         /\ audit'[q] = {} \/ audit'[q] = audit[q]
    BY <1>7 DEF Rollback, Idle, Types, TypeOK
  <2> QED
    BY <1>7, <2>1, HistoryKept DEF Rollback
<1>8. ASSUME NEW k \in Tasks, CommitDecision(k)
      PROVE  History'
  <2>1. PICK row : Insertion(k, row)
    <3>1. pc[k] = "decided"
      BY <1>8 DEF CommitDecision
    <3> QED
      BY <3>1 DEF Follows
  <2>2. audit[k] = {row} /\ audits' = audits \cup {row} /\ nextId' = nextId
    BY <1>8, <2>1 DEF CommitDecision, Insertion
  <2>3. row \in Audits
    BY <2>2 DEF Types, TypeOK
  <2>4. /\ row.id < nextId /\ \A b \in audits : b.id # row.id
        /\ \A q \in Tasks : \A b \in audit[q] : q # k => b.id # row.id
        /\ Overruled(audits, row.over, row.ticket, row.id)
    BY <2>2 DEF History, Numbered, Overtaken
  <2>5. \A q \in Tasks : /\ over'[q] = {} \/ (over'[q] = over[q] /\ doing'[q] = doing[q])
                         /\ audit'[q] = {} \/ (q # k /\ audit'[q] = audit[q])
    BY <1>8 DEF CommitDecision, Idle, Types, TypeOK
  <2>6. nextId' \in Nat /\ nextId <= nextId' /\ row.id < nextId'
    BY <2>2, <2>4, RowTypes
  <2>7. \A q \in Tasks : audit'[q] = {} \/ (audit'[q] = audit[q] /\ \A b \in audit[q] : b.id # row.id)
    BY <2>4, <2>5
  <2>8. \A q \in Tasks : over'[q] = {} \/ (over'[q] = over[q] /\ doing'[q] = doing[q])
    BY <2>5
  <2>9. (\A b \in audits : b.id # row.id) /\ Overruled(audits, row.over, row.ticket, row.id)
    BY <2>4
  <2> QED
    BY <2>2, <2>3, <2>6, <2>7, <2>8, <2>9, CommitHistory
<1>9. ASSUME NEW k \in Tasks, NEW t \in Tickets, FollowAdmin(k, t)
      PROVE  History'
  BY <1>9, HistoryKept DEF FollowAdmin, tasks
<1>10. ASSUME NEW t \in Tickets, TicketCloses(t)
       PROVE  History'
  BY <1>10, HistoryKept DEF TicketCloses, tasks
<1>11. ASSUME NEW k \in Tasks, Classify(k)
       PROVE  History'
  BY <1>4, <1>5, <1>6, <1>7, <1>8, <1>9, <1>11, BeginHistory DEF Classify
<1> QED
  BY <1>1, <1>2, <1>3, <1>10, <1>11 DEF Next

\* The ids tell the audit rows apart, one row of a ticket is the latest, and what a job
\* could see of the admins' decisions when it began had been superseded.
THEOREM DecisionHistory == Spec => []History
<1>1. Init => History
  BY ClassificationAssumption DEF Init, History, Numbered, HaveLatest, Of, Overtaken, Overruled
<1>2. Types /\ Follows /\ History /\ [Next]_vars => History'
  BY HistoryStep
<1> QED
  BY <1>1, <1>2, TypesHold, FollowsHold, PTL DEF Spec

\* A job stores a decision of its own over an admin's, committed when the job began,
\* only if a forced run, or a job that began before the admin's decision was committed,
\* has decided in between.
THEOREM ManualDecisionsHold == Spec => []ManualDecisionsStand
<1>1. ASSUME Types, History
      PROVE  ManualDecisionsStand
  <2> SUFFICES ASSUME NEW t \in Tickets, NEW a \in Of(t), NEW m \in Of(t), m.id \in a.over
               PROVE  \E f \in Of(t) : Supersedes(f, m) /\ f.id < a.id
    BY DEF ManualDecisionsStand
  <2>1. a \in audits /\ a.ticket = t /\ m \in audits
    BY DEF Of
  <2>2. PICK n, f \in audits :
          /\ n.id = m.id /\ n.ticket = t /\ f.ticket = t
          /\ Supersedes(f, n) /\ f.id < a.id
    BY <1>1, <2>1 DEF History, Overtaken, Overruled
  <2>3. n = m
    BY <1>1, <2>1, <2>2 DEF History, Numbered
  <2> QED
    BY <2>2, <2>3 DEF Of
<1>2. Types /\ History => ManualDecisionsStand
  BY <1>1
<1> QED
  BY <1>2, TypesHold, DecisionHistory, PTL

=============================================================================
