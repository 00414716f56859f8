--------------------------- MODULE Classification ---------------------------
(***************************************************************************)
(* Service/spam filtering: the filter rules that admins edit, the filter   *)
(* that each process caches under the checkpoint "tickets_filter_rules",   *)
(* the classification of a ticket by rules and by the LLM, and the audit   *)
(* rows that say which decision counts.                                    *)
(*                                                                         *)
(* An element of Rules is a version of a row of tickets_filter_rules:      *)
(* editing a row replaces one by another.  Whether the value of a rule is  *)
(* found in the part of a ticket that its kind looks at is data: Hits.     *)
(* Each SELECT sees what is committed when it runs (read committed), and   *)
(* utcnow() is cut to whole seconds.                                       *)
(***************************************************************************)
EXTENDS Integers, FiniteSets, Sequences

CONSTANTS
    Rules, KindOf,
    Seeded,                     \* rules that the migrations have inserted
    ChannelOf, AnyChannel,      \* via_channel, normalised
    BrandOf, AnyBrand,          \* brand_id
    Tickets, TicketBrand, TicketChannel,
    Hits,                       \* pairs of a rule and a ticket
    Personal,                   \* tickets whose sender has a gmail.com, ... address
    Automated,                  \* tickets whose sender is named "do not reply", ...
    Jobs,                       \* handler runs of INITIAL_REPLY in the worker process
    Runs,                       \* requests for classification/run in the web process
    Admins,                     \* requests that edit a rule
    NoTicket, NoEdit, NoEntry,
    MaxTime,                    \* bound: the last second
    MaxWrites                   \* bound: requests that edit a rule and audit rows, together

SenderKinds == {"system_address", "system_domain", "address_hint"}
TagKinds == {"service_tag_exact", "service_tag_prefix"}
PatternKinds == {"api_allowed_pattern", "customer_body_pattern", "subject_pattern",
                 "spam_subject_pattern", "spam_body_pattern"}
Kinds == SenderKinds \cup TagKinds \cup PatternKinds \cup {"platform_tag_hint"}

ASSUME ClassificationAssumption ==
    /\ KindOf \in [Rules -> Kinds]
    /\ Seeded \subseteq Rules
    /\ Hits \subseteq Rules \X Tickets
    /\ Jobs \cap Runs = {}
    /\ NoTicket \notin Tickets
    /\ MaxTime \in Nat \ {0}
    /\ MaxWrites \in Nat

----------------------------------------------------------------------------
\* The filter: FilterConfig and TicketsFilter.

\* The channel of a rule counts for patterns only.
Applies(r, t) ==
    /\ <<r, t>> \in Hits
    /\ KindOf[r] \in PatternKinds => ChannelOf[r] \in {AnyChannel, TicketChannel[t]}

Fires(kinds, config, t) == \E r \in config : KindOf[r] \in kinds /\ Applies(r, t)

SenderStrict(config, t) == Fires(SenderKinds, config, t) \/ t \in Automated
SpamMarketing(config, t) == t \in Personal /\ Fires({"spam_subject_pattern"}, config, t)

Exceptions == {"api_exception", "customer_body_exception"}
ChainSenderFirst == <<"sender_strict", "api_exception", "customer_body_exception",
    "subject_pattern", "tag_service", "spam_subject", "spam_body">>
Chain == <<"api_exception", "customer_body_exception", "sender_strict",
    "subject_pattern", "tag_service", "spam_subject", "spam_body">>

RuleFires(rule, config, t) ==
    \/ rule = "api_exception" /\ Fires({"api_allowed_pattern"}, config, t)
    \/ rule = "customer_body_exception" /\ Fires({"customer_body_pattern"}, config, t)
    \/ rule = "sender_strict" /\ SenderStrict(config, t)
    \/ rule = "subject_pattern" /\ Fires({"subject_pattern"}, config, t)
    \/ rule = "tag_service" /\ Fires(TagKinds, config, t)
    \/ rule = "spam_subject" /\ SpamMarketing(config, t)
    \/ rule = "spam_body" /\ Fires({"spam_body_pattern"}, config, t)

Firing(config, t) == {i \in 1..Len(Chain) : RuleFires(Chain[i], config, t)}
FirstOf(S) == CHOOSE i \in S : \A j \in S : i <= j

\* "ask" is ServiceDecision(is_service=False, rule=None).
ClassifyTicket(config, t) ==
    CASE Firing(config, t) = {} -> "ask"
      [] Firing(config, t) # {} /\ Chain[FirstOf(Firing(config, t))] \in Exceptions -> "customer"
      [] OTHER -> "service"

----------------------------------------------------------------------------
VARIABLES
    clock,
    rules,        \* active rows of tickets_filter_rules
    checkpoint,   \* the checkpoint of the filter rules, 0 for no row
    edit,         \* the transaction of a request that edits a rule
    edits,        \* how many there were
    cache,        \* TicketsFilterCache of a process, by brand
    audits,       \* committed rows of ticket_classification_audits
    nextId,       \* the sequence of their ids
    observing,    \* tickets.observing
    closed,       \* history: tickets that TicketClosedWorker has handled
    pc,           \* where a classification is
    doing,        \* its ticket
    version,      \* the checkpoint that it has read
    over,         \* history: admins' decisions committed when a job began
    audit,        \* the row that it has inserted and not committed
    ambiguous     \* a commit has set the checkpoint to no later a second than it had

tasks == <<pc, doing, version, over, audit>>
ruleState == <<rules, checkpoint, edit, edits, ambiguous>>
ticketRows == <<observing, closed>>
vars == <<clock, rules, checkpoint, edit, edits, cache, audits, nextId, observing, closed, pc,
          doing, version, over, audit, ambiguous>>

Tasks == Jobs \cup Runs
Processes == {"worker", "web"}
ProcessOf(k) == IF k \in Jobs THEN "worker" ELSE "web"
Brands == {TicketBrand[t] : t \in Tickets}
Times == 0..MaxTime
Decisions == {"customer", "service", "unknown"}
Sources == {"rule", "llm", "manual"}
Ids == 1..MaxWrites
Audits == [id : Ids, at : Times, ticket : Tickets, source : Sources, decision : Decisions,
           forced : BOOLEAN, over : SUBSET Ids]
Entries == [version : Times, rules : SUBSET Rules]
Edits == [out : SUBSET Rules, in : SUBSET Rules, at : Times]

TypeOK ==
    /\ clock \in 1..MaxTime
    /\ rules \subseteq Rules
    /\ checkpoint \in Times
    /\ edit \in [Admins -> Edits \cup {NoEdit}]
    /\ edits \in 0..MaxWrites
    /\ cache \in [Processes \X Brands -> Entries \cup {NoEntry}]
    /\ audits \subseteq Audits
    /\ nextId \in 1..(MaxWrites + 1)
    /\ observing \in [Tickets -> BOOLEAN]
    /\ closed \subseteq Tickets
    /\ pc \in [Tasks -> {"idle", "started", "loading", "llm", "decided"}]
    /\ doing \in [Tasks -> Tickets \cup {NoTicket}]
    /\ version \in [Tasks -> Times]
    /\ over \in [Tasks -> SUBSET Ids]
    /\ audit \in [Tasks -> SUBSET Audits]
    /\ ambiguous \in BOOLEAN

Init ==
    /\ clock = 1
    /\ rules = Seeded
    /\ checkpoint = 0
    /\ edit = [a \in Admins |-> NoEdit]
    /\ edits = 0
    /\ cache = [c \in Processes \X Brands |-> NoEntry]
    /\ audits = {} /\ nextId = 1
    /\ observing = [t \in Tickets |-> TRUE] /\ closed = {}
    /\ pc = [k \in Tasks |-> "idle"]
    /\ doing = [k \in Tasks |-> NoTicket]
    /\ version = [k \in Tasks |-> 0]
    /\ over = [k \in Tasks |-> {}]
    /\ audit = [k \in Tasks |-> {}]
    /\ ambiguous = FALSE

Writes == edits + nextId - 1

Tick ==
    /\ clock < MaxTime
    /\ clock' = clock + 1
    /\ UNCHANGED <<ruleState, cache, audits, nextId, ticketRows, tasks>>

----------------------------------------------------------------------------
\* Requests that edit a rule: create_filter_rule, create_ticket_filter_rule,
\* update_filter_rule and update_filter_rule_active.

EditAhead(out, in) == [out |-> out, in |-> in, at |-> clock + 1]
Edit(out, in) == [out |-> out, in |-> in, at |-> clock]
Touches(a) == IF edit[a] = NoEdit THEN {} ELSE edit[a].out \cup edit[a].in

\* The statement on the rule, whose row it locks, and _touch_filter_checkpoints:
\* now() is read, and the cache of the web process cleared, before the commit.
SaveRule(a, out, in) ==
    /\ edit[a] = NoEdit
    /\ Writes < MaxWrites
    /\ edits' = edits + 1
    /\ \A b \in Admins : Touches(b) \cap (out \cup in) = {}
    /\ edit' = [edit EXCEPT ![a] = Edit(out, in)]
    /\ cache' = [c \in DOMAIN cache |-> IF c[1] = "web" THEN NoEntry ELSE cache[c]]
    /\ UNCHANGED <<clock, rules, checkpoint, audits, nextId, ticketRows, tasks, ambiguous>>

CreateRule(a, r) == r \notin rules /\ SaveRule(a, {}, {r})
UpdateRule(a, r, s) == r \in rules /\ s \notin rules /\ SaveRule(a, {r}, {s})
ActivateRule(a, r) == SaveRule(a, {}, {r})
DeactivateRule(a, r) == SaveRule(a, {r}, {})

TouchForgotten(a) == checkpoint
Touched(a) == edit[a].at
CommitRule(a) ==
    /\ edit[a] # NoEdit
    /\ rules' = (rules \ edit[a].out) \cup edit[a].in
    /\ checkpoint' = Touched(a)
    /\ ambiguous' = (ambiguous \/ edit[a].at <= checkpoint)
    /\ edit' = [edit EXCEPT ![a] = NoEdit]
    /\ UNCHANGED <<clock, edits, cache, audits, nextId, ticketRows, tasks>>

\* The request fails after its statements: the transaction is rolled back.
EditFails(a) ==
    /\ edit[a] # NoEdit
    /\ edit' = [edit EXCEPT ![a] = NoEdit]
    /\ UNCHANGED <<clock, rules, checkpoint, edits, cache, audits, nextId, ticketRows, tasks, ambiguous>>

----------------------------------------------------------------------------
\* TicketClassificationService.classify_and_store in a transaction of its caller.

Of(t) == {a \in audits : a.ticket = t}
Later(a, b) == a.at > b.at \/ (a.at = b.at /\ a.id > b.id)

\* get_latest_by_ticket, as the set that holds it.
Latest(t) == {a \in Of(t) : \A b \in Of(t) \ {a} : Later(a, b)}
DecidedByAdminFirmly(t) == \E a \in Latest(t) : a.source = "manual" /\ a.decision # "unknown"
DecidedByAdmin(t) == \E a \in Latest(t) : a.source = "manual"

Idle(k) ==
    /\ pc' = [pc EXCEPT ![k] = "idle"]
    /\ doing' = [doing EXCEPT ![k] = NoTicket]
    /\ version' = [version EXCEPT ![k] = 0]
    /\ over' = [over EXCEPT ![k] = {}]
    /\ audit' = [audit EXCEPT ![k] = {}]

\* A job finds that an admin has decided: it follows, and inserts nothing.
FollowAdmin(k, t) ==
    /\ k \in Jobs
    /\ pc[k] = "idle"
    /\ DecidedByAdmin(t)
    /\ observing' = IF \A a \in Latest(t) : a.decision = "service"
                    THEN [observing EXCEPT ![t] = FALSE] ELSE observing
    /\ UNCHANGED <<clock, ruleState, cache, audits, nextId, closed, tasks>>

Begin(k, t) ==
    /\ pc[k] = "idle"
    /\ k \in Runs \/ ~DecidedByAdmin(t)
    /\ pc' = [pc EXCEPT ![k] = "started"]
    /\ doing' = [doing EXCEPT ![k] = t]
    /\ over' = [over EXCEPT ![k] = {a.id : a \in {b \in Of(t) : k \in Jobs /\ b.source = "manual"}}]
    /\ UNCHANGED <<clock, ruleState, cache, audits, nextId, ticketRows, version, audit>>

\* created_at is read before the flush that gives the row its id: in the same second
\* or, as a bound, in the one before.
Stamps == {clock - 1, clock} \ {0}

Insert(k, source, decision) ==
    /\ Writes < MaxWrites
    /\ \E s \in Stamps :
        audit' = [audit EXCEPT ![k] =
                    {[id |-> nextId, at |-> s, ticket |-> doing[k], source |-> source,
                      decision |-> decision, forced |-> k \in Runs, over |-> over[k]]}]
    /\ nextId' = nextId + 1
    /\ pc' = [pc EXCEPT ![k] = "decided"]

\* classify: what the rules say is stored, or the LLM is asked.
Decide(k, config) ==
    LET decision == ClassifyTicket(config, doing[k]) IN
    IF decision = "ask"
    THEN pc' = [pc EXCEPT ![k] = "llm"] /\ UNCHANGED <<audit, nextId>>
    ELSE Insert(k, "rule", decision)

Entry(k) == <<ProcessOf(k), TicketBrand[doing[k]]>>

Valid(c) == cache[c] # NoEntry /\ cache[c].version = checkpoint

\* get_filter: the checkpoint is read, and compared with the version of the
\* entry that the process has then.
UseCached(k) ==
    /\ pc[k] = "started"
    /\ Valid(Entry(k))
    /\ Decide(k, cache[Entry(k)].rules)
    /\ UNCHANGED <<clock, ruleState, cache, audits, ticketRows, doing, version, over>>

ReadCheckpoint(k) ==
    /\ pc[k] = "started"
    /\ ~Valid(Entry(k))
    /\ version' = [version EXCEPT ![k] = checkpoint]
    /\ pc' = [pc EXCEPT ![k] = "loading"]
    /\ UNCHANGED <<clock, ruleState, cache, audits, nextId, ticketRows, doing, over, audit>>

ActiveRules(b) == {r \in rules : BrandOf[r] \in {AnyBrand, b}}

\* The rules are read, and stored under the version read before.
LoadRules(k) ==
    /\ pc[k] = "loading"
    /\ LET loaded == ActiveRules(TicketBrand[doing[k]]) IN
        /\ cache' = [cache EXCEPT ![Entry(k)] = [version |-> version[k], rules |-> loaded]]
        /\ Decide(k, loaded)
    /\ version' = [version EXCEPT ![k] = 0]
    /\ UNCHANGED <<clock, ruleState, audits, ticketRows, doing, over>>

\* LLMTicketClassifier.decide: switched off (customer), answered, or answered
\* with a text that is empty or no classification (unknown).
AskLLM(k) ==
    /\ pc[k] = "llm"
    /\ \E decision \in Decisions : Insert(k, "llm", decision)
    /\ UNCHANGED <<clock, ruleState, cache, audits, ticketRows, doing, version, over>>

\* The decision is committed.  A job on a service ticket marks it unobserved in
\* the same transaction; any other job first writes its reply.
UnobservesUnknown(a) == a.decision # "customer"
Unobserves(a) == a.decision = "service"
CommitDecision(k) ==
    /\ pc[k] = "decided"
    /\ audits' = audits \cup audit[k]
    /\ observing' = IF k \in Jobs /\ \A a \in audit[k] : Unobserves(a)
                    THEN [observing EXCEPT ![doing[k]] = FALSE] ELSE observing
    /\ Idle(k)
    /\ UNCHANGED <<clock, ruleState, cache, nextId, closed>>

\* The LLM cannot be asked (_classify's except clause then reads an unbound
\* variable and raises), a statement or the commit fails, or the process dies.
Rollback(k) ==
    /\ pc[k] # "idle"
    /\ Idle(k)
    /\ UNCHANGED <<clock, ruleState, cache, audits, nextId, ticketRows>>

\* The worker process starts again, with an empty cache.
Restart ==
    /\ \A k \in Jobs : pc[k] = "idle"
    /\ cache' = [c \in DOMAIN cache |-> IF c[1] = "worker" THEN NoEntry ELSE cache[c]]
    /\ UNCHANGED <<clock, ruleState, audits, nextId, ticketRows, tasks>>

\* update_ticket_classification.
DecideManually(t, decision) ==
    /\ Writes < MaxWrites
    /\ \E s \in Stamps :
        audits' = audits \cup
          {[id |-> nextId, at |-> s, ticket |-> t, source |-> "manual", decision |-> decision,
            forced |-> FALSE, over |-> {}]}
    /\ nextId' = nextId + 1
    /\ UNCHANGED <<clock, ruleState, cache, ticketRows, tasks>>

\* TicketClosedWorker: set_observing(FALSE), whatever has been decided.
TicketCloses(t) ==
    /\ observing' = [observing EXCEPT ![t] = FALSE]
    /\ closed' = closed \cup {t}
    /\ UNCHANGED <<clock, ruleState, cache, audits, nextId, tasks>>

EditRules(a) ==
    \/ \E r \in Rules :
        \/ CreateRule(a, r) \/ ActivateRule(a, r) \/ DeactivateRule(a, r)
        \/ \E s \in Rules : UpdateRule(a, r, s)
    \/ CommitRule(a) \/ EditFails(a)

Classify(k) ==
    \/ \E t \in Tickets : FollowAdmin(k, t) \/ Begin(k, t)
    \/ UseCached(k) \/ ReadCheckpoint(k) \/ LoadRules(k) \/ AskLLM(k)
    \/ CommitDecision(k) \/ Rollback(k)

Next ==
    \/ Tick \/ Restart
    \/ \E a \in Admins : EditRules(a)
    \/ \E k \in Tasks : Classify(k)
    \/ \E t \in Tickets : TicketCloses(t) \/ \E d \in Decisions : DecideManually(t, d)

Spec == Init /\ [][Next]_vars

----------------------------------------------------------------------------
Current(c) == cache[c] = NoEntry \/ cache[c].rules = ActiveRules(c[2])

\* A filter that a process takes for valid holds the committed rules, however
\* reading the checkpoint and reading the rules interleave with edits, unless two
\* edits got one second or committed against the order of their seconds.
StaleFilterNeedsCoincidence ==
    ambiguous \/ \A c \in DOMAIN cache : Valid(c) => Current(c)

\* filter_rules.html: "New active rules apply after saving."
NewRulesApply ==
    \A c \in DOMAIN cache : Valid(c) => Current(c)

\* TicketsFilter: a ticket with a customer exception is never skipped ("even if
\* other rules would classify it as service-level"), and apart from that the order
\* of the rule chain decides nothing, whatever rules admins have made active.
ServiceKindsFor(t) ==
    SenderKinds \cup TagKinds \cup {"subject_pattern", "spam_body_pattern"}
    \cup (IF t \in Personal THEN {"spam_subject_pattern"} ELSE {})
OrderIndependent(config, t) ==
    ClassifyTicket(config, t) =
        IF Fires({"api_allowed_pattern", "customer_body_pattern"}, config, t) THEN "customer"
        ELSE IF t \in Automated \/ Fires(ServiceKindsFor(t), config, t) THEN "service"
        ELSE "ask"
ChainOrderIsSound == \A t \in Tickets : OrderIndependent(rules, t)

\* classify_and_store: "the manual decision is returned as-is and no new audit row
\* is written".  A job that could see an admin's decision when it began stores a
\* decision of its own only if another had been stored before it that counts over the
\* admin's: that of a forced run, or of a job that began before the admin's decision
\* was committed.
Supersedes(f, m) == f.source # "manual" /\ (f.forced \/ m.id \notin f.over) /\ Later(f, m)
ManualDecisionsStand ==
    \A t \in Tickets : \A a \in {b \in Of(t) : ~b.forced} :
        \A m \in {b \in Of(t) : b.id \in a.over} :
            \E f \in Of(t) : Supersedes(f, m) /\ f.id < a.id

\* _filter_as_service and _mark_unobserved are one transaction with the audit row:
\* a job's service decision leaves no ticket observed, and a ticket is unobserved
\* only if some decision on it was "service" or it has been closed.
ObservingFollowsDecisions ==
    /\ \A a \in audits :
        a.decision = "service" /\ a.source # "manual" /\ ~a.forced => ~observing[a.ticket]
    /\ \A t \in Tickets : ~observing[t] =>
        t \in closed \/ \E a \in Of(t) : a.decision = "service"
=============================================================================
