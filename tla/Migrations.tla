------------------------------ MODULE Migrations ------------------------------
(***************************************************************************)
(* The schema of the database over deployments, rollbacks and use.  A      *)
(* revision of src/alembic/versions is a number, its place in the chain of *)
(* down_revisions; an image is known by the last revision it ships.        *)
(* alembic runs in one transaction: it does all of a command or nothing.   *)
(* Of a table the model keeps its name, its columns of an enum type and    *)
(* whether our_posts has a body; of the rules of a kind with one author    *)
(* one rule; of our_posts and ticket_reply_attempts the channels that      *)
(* occur in their rows, "other" for NULL or a text that is no label; and   *)
(* of telegram_users the telegram_ids that two rows have.                  *)
(***************************************************************************)
EXTENDS Integers

CONSTANTS
    Images,     \* images that are deployed
    MaxEdits    \* bound: rules that admins create or deactivate

LastRevision == 12
ASSUME MigrationsAssumption == Images \subseteq 1..LastRevision /\ MaxEdits \in Nat

VARIABLES
    db,         \* the schema and the rows that matter to it
    app,        \* the image that app and web run, 0 for none
    deploying,  \* the image that "make prod-deploy" has migrated to and not started
    edits

vars == <<db, app, deploying, edits>>

Channels == {"INTERNAL", "PUBLIC"}
Roles == {"SUPERADMIN", "ADMIN", "USER", "ANONYMOUS"}
TypeNames ==
    {"user_role_enum", "llm_prompt_key_enum", "llm_settings_key_enum", "post_channel_enum",
     "reply_attempt_status_enum", "llm_playground_ticket_status_enum",
     "llm_playground_message_role_enum", "llm_playground_run_status_enum"}

Empty ==
    [ok |-> TRUE,        \* no statement of the running command has failed
     version |-> 0,      \* alembic_version
     tables |-> {},
     types |-> [t \in TypeNames |-> {}],     \* labels of an enum type, none if it is not there
     uses |-> {},        \* <<table, type>>: the columns of an enum type
     body |-> FALSE,     \* our_posts.body
     rules |-> {},       \* tickets_filter_rules
     posted |-> {},      \* channels in the rows of our_posts and ticket_reply_attempts
     twins |-> {},       \* telegram_ids of two rows of telegram_users
     mode |-> "none"]    \* review_channel of zendesk_runtime_settings

----------------------------------------------------------------------------
\* Statements of the revisions.

Require(d, condition) == [d EXCEPT !.ok = @ /\ condition]
CreateTables(d, names) == [Require(d, d.tables \cap names = {}) EXCEPT !.tables = @ \cup names]
DropTables(d, names) ==
    [Require(d, names \subseteq d.tables) EXCEPT
        !.tables = @ \ names, !.uses = {use \in @ : use[1] \notin names}]

\* A table created with a column of an ENUM creates the type, without asking whether
\* it exists.  Dropping the table leaves the type.
CreateType(d, type, labels) ==
    [Require(d, d.types[type] = {}) EXCEPT !.types[type] = labels]
CheckFirstType(d, type, labels) ==
    IF d.types[type] # {} THEN d ELSE CreateType(d, type, labels)
DropType(d, type) ==
    [Require(d, d.types[type] # {} /\ \A use \in d.uses : use[2] # type) EXCEPT
        !.types[type] = {}]
CheckFirstDrop(d, type) == IF d.types[type] = {} THEN d ELSE DropType(d, type)
\* A column of an enum type is created, or altered to it.
Use(d, pairs) ==
    [Require(d, \A p \in pairs : p[1] \in d.tables /\ d.types[p[2]] # {}) EXCEPT
        !.uses = @ \cup pairs]
Seed(d, author, kinds) ==
    [d EXCEPT !.rules = @ \cup {[author |-> author, kind |-> k, active |-> TRUE] : k \in kinds}]

----------------------------------------------------------------------------
\* upgrade() and downgrade() of each revision.

\* 2477e58084e8: the tables, and the rules the service starts with, by kind.
SenderKinds == {"system_domain", "system_address", "address_hint"}
SubjectAndTagKinds ==
    {"subject_pattern", "service_tag_exact", "service_tag_prefix", "platform_tag_hint"}
ContentKinds == {"api_allowed_pattern", "spam_subject_pattern"}
CreateInitial(d) ==
    Seed(CreateTables(d, {"checkpoints", "locks", "tickets", "tickets_filter_rules", "events",
                          "our_posts"}),
         "seed", SenderKinds \cup SubjectAndTagKinds \cup ContentKinds)
\* Its DELETE names a parameter that is given no value.
DropInitial(d) == Require(d, FALSE)

\* 97ec573d3a8e
CreateTelegramUsers(d) ==
    Use(CreateTables(CreateType(d, "user_role_enum", Roles), {"telegram_users"}),
        {<<"telegram_users", "user_role_enum">>})
DropTelegramUsers(d) == [DropTables(d, {"telegram_users"}) EXCEPT !.twins = {}]

\* 14da7a9ecff2: the body of a post is NOT NULL and has no default, and a telegram_id
\* becomes unique.
CreateLLMTables(d) ==
    LET prompts == CreateType(d, "llm_prompt_key_enum",
                              {"INITIAL_REPLY", "FOLLOWUP_REPLY", "CLASSIFICATION"})
        settings == CreateType(prompts, "llm_settings_key_enum", {"CLASSIFICATION", "RESPONSE"})
        rows == Require(settings, d.posted = {} /\ d.twins = {})
    IN  [Use(CreateTables(rows, {"llm_prompts", "llm_runtime_settings"}),
             {<<"llm_prompts", "llm_prompt_key_enum">>,
              <<"llm_runtime_settings", "llm_settings_key_enum">>}) EXCEPT !.body = TRUE]
\* It drops a constraint by no name.
DropLLMTables(d) == Require(d, FALSE)

\* 13053536ca78
CreateListings(d) == CreateTables(d, {"merchant_listings"})
DropListings(d) == DropTables(d, {"merchant_listings"})

\* 715e87b2f54b: every channel of our_posts is cast to a label.
CreateReviewChannel(d) ==
    LET typed == CreateType(d, "post_channel_enum", Channels)
        cast == Require(typed, d.posted \subseteq Channels)
    IN  Use(CreateTables(cast, {"zendesk_runtime_settings"}),
        {<<"zendesk_runtime_settings", "post_channel_enum">>, <<"our_posts", "post_channel_enum">>})
DropReviewChannelTable(d) == [DropTables(d, {"zendesk_runtime_settings"}) EXCEPT !.mode = "none"]
DropReviewChannel(d) ==
    [DropTables(d, {"zendesk_runtime_settings"}) EXCEPT
        !.uses = @ \ {<<"our_posts", "post_channel_enum">>}, !.mode = "none"]

\* 9fd13967f3ff
CreateAdminUsers(d) ==
    Use(CreateTables(d, {"admin_users"}), {<<"admin_users", "user_role_enum">>})
DropAdminUsers(d) == DropTables(d, {"admin_users"})

\* 85ae46f57bcf
AttemptStatuses == {"GENERATED", "POSTED", "FAILED", "SKIPPED_DUPLICATE", "EMPTY_REPLY"}
CreateAttempts(d) ==
    Use(CreateTables(CreateType(d, "reply_attempt_status_enum", AttemptStatuses),
                     {"ticket_reply_attempts"}),
        {<<"ticket_reply_attempts", "post_channel_enum">>,
         <<"ticket_reply_attempts", "reply_attempt_status_enum">>})
DropAttemptsOnly(d) == DropTables(d, {"ticket_reply_attempts"})
DropAttempts(d) == DropType(DropTables(d, {"ticket_reply_attempts"}), "reply_attempt_status_enum")

\* 6d52a1d7a7cc
TicketStatuses == {"open", "closed"}
MessageRoles == {"user", "assistant", "system"}
RunStatuses == {"generated", "failed"}
PlaygroundTables == {"llm_playground_tickets", "llm_playground_messages", "llm_playground_runs"}
CreatePlayground(d) ==
    LET statuses == CheckFirstType(d, "llm_playground_ticket_status_enum", TicketStatuses)
        roles == CheckFirstType(statuses, "llm_playground_message_role_enum", MessageRoles)
        runs == CheckFirstType(roles, "llm_playground_run_status_enum", RunStatuses)
    IN  Use(CreateTables(runs, PlaygroundTables),
            {<<"llm_playground_tickets", "llm_playground_ticket_status_enum">>,
             <<"llm_playground_messages", "llm_playground_message_role_enum">>,
             <<"llm_playground_runs", "llm_playground_run_status_enum">>})
DropPlayground(d) ==
    LET runs == CheckFirstDrop(DropTables(d, PlaygroundTables), "llm_playground_run_status_enum")
        roles == CheckFirstDrop(runs, "llm_playground_message_role_enum")
    IN  CheckFirstDrop(roles, "llm_playground_ticket_status_enum")

\* b4a2f9c1d8e0
CreateAudits(d) ==
    Seed(CreateTables(d, {"ticket_classification_audits"}), "b4a2f9c1d8e0", {"spam_body_pattern"})
DropAuditsAndKind(d) ==
    [DropTables(d, {"ticket_classification_audits"}) EXCEPT
        !.rules = {r \in @ : r.kind # "spam_body_pattern"}]
DropAudits(d) ==
    [DropTables(d, {"ticket_classification_audits"}) EXCEPT
        !.rules = {r \in @ : ~(r.kind = "spam_body_pattern" /\ r.author = "b4a2f9c1d8e0")}]

\* c8f14a92d6b1
SeedBodyRules(d) == Seed(d, "c8f14a92d6b1", {"customer_body_pattern", "spam_body_pattern"})
DeleteBodyRules(d) == [d EXCEPT !.rules = {r \in @ : r.author # "c8f14a92d6b1"}]

\* f3d2b1a7c9e4
CreateAttachments(d) == CreateTables(d, {"ticket_comment_attachments"})
DropAttachments(d) == DropTables(d, {"ticket_comment_attachments"})

\* a1c7e2b49d31: the downgrade rebuilds the type and casts the three columns to it.
AddOff(d) ==
    [Require(d, d.types["post_channel_enum"] # {}) EXCEPT
        !.types["post_channel_enum"] = @ \cup {"OFF"}]
RemoveOff(d) ==
    [Require(d, "OFF" \notin d.posted \cup {d.mode}) EXCEPT
        !.types["post_channel_enum"] = Channels]

Up(r, d) ==
    CASE r = 1 -> CreateInitial(d)       [] r = 2 -> CreateTelegramUsers(d)
      [] r = 3 -> CreateLLMTables(d)     [] r = 4 -> CreateListings(d)
      [] r = 5 -> CreateReviewChannel(d) [] r = 6 -> CreateAdminUsers(d)
      [] r = 7 -> CreateAttempts(d)      [] r = 8 -> CreatePlayground(d)
      [] r = 9 -> CreateAudits(d)        [] r = 10 -> SeedBodyRules(d)
      [] r = 11 -> CreateAttachments(d)  [] r = 12 -> AddOff(d)
Down(r, d) ==
    CASE r = 1 -> DropInitial(d)         [] r = 2 -> DropTelegramUsers(d)
      [] r = 3 -> DropLLMTables(d)       [] r = 4 -> DropListings(d)
      [] r = 5 -> DropReviewChannel(d)   [] r = 6 -> DropAdminUsers(d)
      [] r = 7 -> DropAttempts(d)        [] r = 8 -> DropPlayground(d)
      [] r = 9 -> DropAudits(d)          [] r = 10 -> DeleteBodyRules(d)
      [] r = 11 -> DropAttachments(d)    [] r = 12 -> RemoveOff(d)

\* "alembic upgrade head" of an image, "alembic downgrade -1" of one: neither knows
\* a revision that the image does not ship.  The transaction keeps all or nothing.
Knows(image, d) == d.version <= image
Raise(r, image, d) ==
    IF d.version = r - 1 /\ r <= image THEN [Up(r, d) EXCEPT !.version = r] ELSE d
RaiseThree(r, image, d) == Raise(r + 2, image, Raise(r + 1, image, Raise(r, image, d)))
Upgrade(image, d) ==
    RaiseThree(10, image, RaiseThree(7, image, RaiseThree(4, image, RaiseThree(1, image, d))))
Downgrade(d) == [Down(d.version, d) EXCEPT !.version = @ - 1]

----------------------------------------------------------------------------
Init ==
    /\ db = Empty
    /\ app = 0
    /\ deploying = 0
    /\ edits = 0

\* make prod-deploy: prod-migrate, then prod-up, unless the first fails.
Migrate(image) ==
    /\ deploying = 0
    /\ Knows(image, db)
    /\ Upgrade(image, db).ok
    /\ db' = Upgrade(image, db)
    /\ deploying' = image
    /\ UNCHANGED <<app, edits>>

ProdUp ==
    /\ deploying # 0
    /\ app' = deploying
    /\ deploying' = 0
    /\ UNCHANGED <<db, edits>>

\* The old containers keep running when prod-up is not reached.
Interrupted ==
    /\ deploying # 0
    /\ deploying' = 0
    /\ UNCHANGED <<db, app, edits>>

\* "docker compose run --rm migrate uv run alembic downgrade -1", with the stack as it is.
DowngradeOne(image) ==
    /\ deploying = 0
    /\ db.version > 0
    /\ Knows(image, db)
    /\ Downgrade(db).ok
    /\ db' = Downgrade(db)
    /\ UNCHANGED <<app, deploying, edits>>

\* The program, while the schema is the one it was written for.
Serving == app # 0 /\ db.version = app

\* A worker records an attempt and a post; the first read creates the default mode.
\* Before 715e87b2f54b a channel may be any text, or NULL.
NextChannel ==
    IF app < 5 THEN {"INTERNAL", "other"}
    ELSE IF db.mode = "none" THEN {"INTERNAL"} ELSE {db.mode}
Answer ==
    /\ Serving
    /\ \E channel \in NextChannel :
        db' = [db EXCEPT !.posted = @ \cup {channel},
                         !.mode = IF app >= 5 THEN channel ELSE @]
    /\ UNCHANGED <<app, deploying, edits>>

\* Two /add_user look for the user and then insert it, before 14da7a9ecff2 makes its
\* telegram_id unique.
AddUserTwice ==
    /\ Serving
    /\ app = 2
    /\ db' = [db EXCEPT !.twins = {"id"}]
    /\ UNCHANGED <<app, deploying, edits>>

SetMode(channel) ==
    /\ Serving
    /\ app >= 5
    /\ channel \in db.types["post_channel_enum"]
    /\ db' = [db EXCEPT !.mode = channel]
    /\ UNCHANGED <<app, deploying, edits>>

CreateRule(kind) ==
    /\ Serving
    /\ edits < MaxEdits
    /\ db' = [db EXCEPT !.rules = @ \cup {[author |-> "admin", kind |-> kind, active |-> TRUE]}]
    /\ edits' = edits + 1
    /\ UNCHANGED <<app, deploying>>

DeactivateRule(rule) ==
    /\ Serving
    /\ edits < MaxEdits
    /\ rule.active
    /\ db' = [db EXCEPT !.rules = (@ \ {rule}) \cup {[rule EXCEPT !.active = FALSE]}]
    /\ edits' = edits + 1
    /\ UNCHANGED <<app, deploying>>

Next ==
    \/ \E image \in Images : Migrate(image) \/ DowngradeOne(image)
    \/ ProdUp \/ Interrupted \/ Answer \/ AddUserTwice
    \/ \E channel \in {"INTERNAL", "OFF"} : SetMode(channel)
    \/ CreateRule("spam_body_pattern")
    \/ \E rule \in db.rules : DeactivateRule(rule)

Spec == Init /\ [][Next]_vars

----------------------------------------------------------------------------
\* src/db/models.py: its tables, and their columns of an enum type with its labels.

TicketModels == {"tickets", "events", "our_posts"}
AuditModels == {"ticket_classification_audits", "ticket_comment_attachments"}
AttemptModels == {"ticket_reply_attempts"}
PlaygroundModels == PlaygroundTables
RuleModels == {"checkpoints", "locks", "tickets_filter_rules"}
LLMModels == {"llm_runtime_settings", "llm_prompts"}
ListingModels == {"merchant_listings"}
UserModels == {"telegram_users", "admin_users"}
ZendeskModels == {"zendesk_runtime_settings"}
ModelTables == TicketModels \cup AuditModels \cup AttemptModels \cup PlaygroundModels \cup RuleModels
               \cup LLMModels \cup ListingModels \cup UserModels \cup ZendeskModels

ChannelColumns == {"our_posts", "ticket_reply_attempts", "zendesk_runtime_settings"}
ModelEnums ==
    {<<t, "post_channel_enum", {"INTERNAL", "PUBLIC", "OFF"}>> : t \in ChannelColumns}
    \cup {<<t, "user_role_enum", Roles>> : t \in UserModels}
    \cup {<<"ticket_reply_attempts", "reply_attempt_status_enum", AttemptStatuses>>,
          <<"llm_prompts", "llm_prompt_key_enum",
            {"INITIAL_REPLY", "FOLLOWUP_REPLY", "CLASSIFICATION"}>>,
          <<"llm_runtime_settings", "llm_settings_key_enum", {"CLASSIFICATION", "RESPONSE"}>>,
          <<"llm_playground_tickets", "llm_playground_ticket_status_enum", TicketStatuses>>,
          <<"llm_playground_messages", "llm_playground_message_role_enum", MessageRoles>>,
          <<"llm_playground_runs", "llm_playground_run_status_enum", RunStatuses>>}
EnumsOf(d) == {<<use[1], use[2], d.types[use[2]]>> : use \in d.uses}

\* The revision says what the tables, their columns of an enum type and the labels of
\* these are, whatever upgrades and downgrades led to it: those of a database upgraded
\* to it from nothing, and at the head those of the models.  (A type that a downgrade
\* has left behind and no column has is not part of this: see LeftType.)
Shape(d) == [tables |-> d.tables, enums |-> EnumsOf(d), body |-> d.body]
RevisionTellsSchema ==
    /\ Shape(db) = Shape(Upgrade(db.version, Empty))
    /\ db.version = LastRevision =>
        Shape(db) = [tables |-> ModelTables, enums |-> ModelEnums, body |-> TRUE]

\* "make prod-migrate  # apply Alembic migrations (idempotent)": every image that knows
\* the revision upgrades from it, with five exceptions: a type that the downgrade of
\* 97ec573d3a8e or 715e87b2f54b has left is in the way of the upgrade, 14da7a9ecff2
\* needs our_posts to be empty and no telegram_id to be there twice, and 715e87b2f54b
\* needs the channels of our_posts to be labels.
LeftType(type, born) == db.version < born /\ db.types[type] # {}
UpgradesFailOnlyAsKnown ==
    \A image \in Images :
        image >= db.version /\ ~Upgrade(image, db).ok =>
            \/ LeftType("user_role_enum", 2)
            \/ LeftType("post_channel_enum", 5)
            \/ db.version < 3 /\ (db.posted # {} \/ db.twins # {})
            \/ db.version < 5 /\ ~(db.posted \subseteq Channels)

\* "post_channel_enum" never loses a value that a row has.
ChannelsInUseAreKept ==
    LET used == db.posted \cup {db.mode} IN
    "OFF" \in used => "OFF" \in db.types["post_channel_enum"]

\* What an admin has entered outlives the migrations: none deletes a rule that an
\* admin has created, no upgrade changes a rule (what an admin has deactivated
\* stays so), and no row is left with a value that its type has lost.
RowsSurvive ==
    [][/\ ChannelsInUseAreKept'
       /\ edits' = edits =>
            /\ {r \in db.rules : r.author = "admin"} \subseteq db'.rules
            /\ db'.version >= db.version => db.rules \subseteq db'.rules]_vars
=============================================================================
