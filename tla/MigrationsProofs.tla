-------------------------- MODULE MigrationsProofs --------------------------
(***************************************************************************)
(* For any images and any order of deployments, rollbacks and edits: the   *)
(* revision of the database tells its schema, an upgrade fails only for a  *)
(* known reason, and what admins and workers have written survives.        *)
(***************************************************************************)
EXTENDS Migrations, TLAPS

\* A schema is a record of these fields.
Schema(d) ==
    /\ d = [ok |-> d.ok, version |-> d.version, tables |-> d.tables, types |-> d.types,
            uses |-> d.uses, body |-> d.body, rules |-> d.rules, posted |-> d.posted,
            twins |-> d.twins, mode |-> d.mode]
    /\ d.ok \in BOOLEAN
    /\ d.types = [t \in TypeNames |-> d.types[t]]

\* The schema of a revision.
TablesAt(v) ==
    (IF v >= 1 THEN {"checkpoints", "locks", "tickets", "tickets_filter_rules", "events",
                     "our_posts"} ELSE {})
    \cup (IF v >= 2 THEN {"telegram_users"} ELSE {})
    \cup (IF v >= 3 THEN {"llm_prompts", "llm_runtime_settings"} ELSE {})
    \cup (IF v >= 4 THEN {"merchant_listings"} ELSE {})
    \cup (IF v >= 5 THEN {"zendesk_runtime_settings"} ELSE {})
    \cup (IF v >= 6 THEN {"admin_users"} ELSE {})
    \cup (IF v >= 7 THEN {"ticket_reply_attempts"} ELSE {})
    \cup (IF v >= 8 THEN PlaygroundTables ELSE {})
    \cup (IF v >= 9 THEN {"ticket_classification_audits"} ELSE {})
    \cup (IF v >= 11 THEN {"ticket_comment_attachments"} ELSE {})
UsesAt(v) ==
    (IF v >= 2 THEN {<<"telegram_users", "user_role_enum">>} ELSE {})
    \cup (IF v >= 3 THEN {<<"llm_prompts", "llm_prompt_key_enum">>,
                          <<"llm_runtime_settings", "llm_settings_key_enum">>} ELSE {})
    \cup (IF v >= 5 THEN {<<"zendesk_runtime_settings", "post_channel_enum">>,
                          <<"our_posts", "post_channel_enum">>} ELSE {})
    \cup (IF v >= 6 THEN {<<"admin_users", "user_role_enum">>} ELSE {})
    \cup (IF v >= 7 THEN {<<"ticket_reply_attempts", "post_channel_enum">>,
                          <<"ticket_reply_attempts", "reply_attempt_status_enum">>} ELSE {})
    \cup (IF v >= 8 THEN {<<"llm_playground_tickets", "llm_playground_ticket_status_enum">>,
                          <<"llm_playground_messages", "llm_playground_message_role_enum">>,
                          <<"llm_playground_runs", "llm_playground_run_status_enum">>} ELSE {})
LabelsAt(v, t) ==
    CASE t = "user_role_enum" -> IF v >= 2 THEN Roles ELSE {}
      [] t = "llm_prompt_key_enum" ->
            IF v >= 3 THEN {"INITIAL_REPLY", "FOLLOWUP_REPLY", "CLASSIFICATION"} ELSE {}
      [] t = "llm_settings_key_enum" -> IF v >= 3 THEN {"CLASSIFICATION", "RESPONSE"} ELSE {}
      [] t = "post_channel_enum" ->
            IF v >= 12 THEN Channels \cup {"OFF"} ELSE IF v >= 5 THEN Channels ELSE {}
      [] t = "reply_attempt_status_enum" -> IF v >= 7 THEN AttemptStatuses ELSE {}
      [] t = "llm_playground_ticket_status_enum" -> IF v >= 8 THEN TicketStatuses ELSE {}
      [] t = "llm_playground_message_role_enum" -> IF v >= 8 THEN MessageRoles ELSE {}
      [] t = "llm_playground_run_status_enum" -> IF v >= 8 THEN RunStatuses ELSE {}

\* Two types are left behind by a downgrade; nothing says that they are not there.
Leavable == {"user_role_enum", "post_channel_enum"}
At(v, d) ==
    /\ d.tables = TablesAt(v)
    /\ d.uses = UsesAt(v)
    /\ \A t \in TypeNames :
          LabelsAt(v, t) # {} \/ t \notin Leavable => d.types[t] = LabelsAt(v, t)
    /\ d.body = (v >= 3)

\* A statement has changed tables, types and columns, if its condition held.
Becomes(e, d, condition, tables, types, uses) ==
    /\ Schema(e)
    /\ e.ok <=> d.ok /\ condition
    /\ e.tables = tables /\ e.types = types /\ e.uses = uses
    /\ e.version = d.version /\ e.body = d.body /\ e.rules = d.rules
    /\ e.posted = d.posted /\ e.twins = d.twins /\ e.mode = d.mode
Seeded(e, d) ==
    /\ Schema(e)
    /\ e.ok = d.ok /\ e.tables = d.tables /\ e.types = d.types /\ e.uses = d.uses
    /\ e.version = d.version /\ e.body = d.body /\ d.rules \subseteq e.rules
    /\ e.posted = d.posted /\ e.twins = d.twins /\ e.mode = d.mode

-----------------------------------------------------------------------------
\* What each statement does to a schema.

LEMMA RequireIs ==
  ASSUME NEW d, Schema(d), NEW condition \in BOOLEAN
  PROVE  Becomes(Require(d, condition), d, condition, d.tables, d.types, d.uses)
  BY DEF Require, Schema, Becomes

LEMMA CreateTablesIs ==
  ASSUME NEW d, Schema(d), NEW names
  PROVE  Becomes(CreateTables(d, names), d, d.tables \cap names = {},
                 d.tables \cup names, d.types, d.uses)
<1> DEFINE e == Require(d, d.tables \cap names = {})
<1>1. (d.tables \cap names = {}) \in BOOLEAN
  OBVIOUS
<1>2. Becomes(e, d, d.tables \cap names = {}, d.tables, d.types, d.uses)
  BY <1>1, RequireIs, Zenon
<1>3. CreateTables(d, names) = [e EXCEPT !.tables = e.tables \cup names]
  BY DEF CreateTables
<1> HIDE DEF e
<1> QED
  BY <1>2, <1>3 DEF Becomes, Schema

LEMMA CreateTypeIs ==
  ASSUME NEW d, Schema(d), NEW type \in TypeNames, NEW labels
  PROVE  Becomes(CreateType(d, type, labels), d, d.types[type] = {},
                 d.tables, [d.types EXCEPT ![type] = labels], d.uses)
<1> DEFINE e == Require(d, d.types[type] = {})
<1>1. (d.types[type] = {}) \in BOOLEAN
  OBVIOUS
<1>2. Becomes(e, d, d.types[type] = {}, d.tables, d.types, d.uses)
  BY <1>1, RequireIs, Zenon
<1>3. CreateType(d, type, labels) = [e EXCEPT !.types = [e.types EXCEPT ![type] = labels]]
  BY DEF CreateType
<1> HIDE DEF e
<1> QED
  BY <1>2, <1>3 DEF Becomes, Schema

LEMMA DropTypeIs ==
  ASSUME NEW d, Schema(d), NEW type \in TypeNames
  PROVE  Becomes(DropType(d, type), d, d.types[type] # {} /\ \A use \in d.uses : use[2] # type,
                 d.tables, [d.types EXCEPT ![type] = {}], d.uses)
<1> DEFINE e == Require(d, d.types[type] # {} /\ \A use \in d.uses : use[2] # type)
<1>1. (d.types[type] # {} /\ \A use \in d.uses : use[2] # type) \in BOOLEAN
  OBVIOUS
<1>2. Becomes(e, d, d.types[type] # {} /\ \A use \in d.uses : use[2] # type, d.tables, d.types, d.uses)
  BY <1>1, RequireIs, Zenon
<1>3. DropType(d, type) = [e EXCEPT !.types = [e.types EXCEPT ![type] = {}]]
  BY DEF DropType
<1> HIDE DEF e
<1> QED
  BY <1>2, <1>3 DEF Becomes, Schema

LEMMA UseIs ==
  ASSUME NEW d, Schema(d), NEW pairs
  PROVE  Becomes(Use(d, pairs), d, \A p \in pairs : p[1] \in d.tables /\ d.types[p[2]] # {},
                 d.tables, d.types, d.uses \cup pairs)
<1> DEFINE e == Require(d, \A p \in pairs : p[1] \in d.tables /\ d.types[p[2]] # {})
<1>1. (\A p \in pairs : p[1] \in d.tables /\ d.types[p[2]] # {}) \in BOOLEAN
  OBVIOUS
<1>2. Becomes(e, d, \A p \in pairs : p[1] \in d.tables /\ d.types[p[2]] # {}, d.tables, d.types, d.uses)
  BY <1>1, RequireIs, Zenon
<1>3. Use(d, pairs) = [e EXCEPT !.uses = e.uses \cup pairs]
  BY DEF Use
<1> HIDE DEF e
<1> QED
  BY <1>2, <1>3 DEF Becomes, Schema

LEMMA DropTablesIs ==
  ASSUME NEW d, Schema(d), NEW names
  PROVE  Becomes(DropTables(d, names), d, names \subseteq d.tables,
                 d.tables \ names, d.types, {use \in d.uses : use[1] \notin names})
<1> DEFINE e == Require(d, names \subseteq d.tables)
<1>1. (names \subseteq d.tables) \in BOOLEAN
  OBVIOUS
<1>2. Becomes(e, d, names \subseteq d.tables, d.tables, d.types, d.uses)
  BY <1>1, RequireIs, Zenon
<1>3. DropTables(d, names) =
        [e EXCEPT !.tables = e.tables \ names, !.uses = {use \in e.uses : use[1] \notin names}]
  BY DEF DropTables
<1> HIDE DEF e
<1> QED
  BY <1>2, <1>3 DEF Becomes, Schema

LEMMA BodyIs ==
  ASSUME NEW d, Schema(d), NEW body
  PROVE  LET e == [d EXCEPT !.body = body] IN
         /\ Schema(e) /\ e.body = body /\ e.ok = d.ok
         /\ e.tables = d.tables /\ e.types = d.types /\ e.uses = d.uses
         /\ e.version = d.version /\ e.rules = d.rules /\ e.posted = d.posted /\ e.twins = d.twins
         /\ e.mode = d.mode
  BY DEF Schema

LEMMA SeedIs ==
  ASSUME NEW d, Schema(d), NEW author, NEW kinds
  PROVE  Seeded(Seed(d, author, kinds), d)
  BY DEF Seed, Seeded, Schema

LEMMA TypeNamesAre ==
  /\ "user_role_enum" \in TypeNames /\ "post_channel_enum" \in TypeNames
  /\ "llm_prompt_key_enum" \in TypeNames /\ "llm_settings_key_enum" \in TypeNames
  /\ "reply_attempt_status_enum" \in TypeNames
  /\ "llm_playground_ticket_status_enum" \in TypeNames
  /\ "llm_playground_message_role_enum" \in TypeNames
  /\ "llm_playground_run_status_enum" \in TypeNames
  BY DEF TypeNames

\* Tables that are created with their columns of an enum type.
LEMMA CreateWithColumns ==
  ASSUME NEW d, Schema(d), NEW names, NEW pairs
  PROVE  Becomes(Use(CreateTables(d, names), pairs), d,
                 /\ d.tables \cap names = {}
                 /\ \A p \in pairs : p[1] \in d.tables \cup names /\ d.types[p[2]] # {},
                 d.tables \cup names, d.types, d.uses \cup pairs)
<1> DEFINE tabled == CreateTables(d, names)
           e == Use(tabled, pairs)
<1>1. Becomes(tabled, d, d.tables \cap names = {}, d.tables \cup names, d.types, d.uses)
  BY CreateTablesIs
<1> HIDE DEF tabled
<1>2. Schema(tabled)
  BY <1>1 DEF Becomes
<1>3. Becomes(e, tabled, \A p \in pairs : p[1] \in tabled.tables /\ tabled.types[p[2]] # {},
              tabled.tables, tabled.types, tabled.uses \cup pairs)
  BY <1>2, UseIs
<1> HIDE DEF e
<1> QED
  BY <1>1, <1>3 DEF Becomes, e, tabled

-----------------------------------------------------------------------------
\* What upgrade() of each revision makes of the schema of the revision before it.  A type
\* that was left behind, or a row, can be in the way of three of them.
Ready(r, d) ==
    /\ r = 2 => d.types["user_role_enum"] = {}
    /\ r = 3 => d.posted = {} /\ d.twins = {}
    /\ r = 5 => d.types["post_channel_enum"] = {} /\ d.posted \subseteq Channels
Raised(r, d, e) ==
    /\ Schema(e) /\ At(r, e)
    /\ e.version = d.version /\ e.posted = d.posted /\ e.twins = d.twins /\ e.mode = d.mode
    /\ d.rules \subseteq e.rules
    /\ e.ok => d.ok
    /\ d.ok /\ Ready(r, d) => e.ok
    /\ \A t \in TypeNames : LabelsAt(r, t) = {} => e.types[t] = d.types[t]

\* What a revision adds to the one before it, and what its upgrade() then does.
LEMMA Up1 ==
  ASSUME NEW d, Schema(d), At(0, d)
  PROVE  Raised(1, d, Up(1, d))
<1> DEFINE names == {"checkpoints", "locks", "tickets", "tickets_filter_rules", "events", "our_posts"}
           kinds == SenderKinds \cup SubjectAndTagKinds \cup ContentKinds
           made == CreateTables(d, names)
           e == Seed(made, "seed", kinds)
<1>1. Up(1, d) = e
  BY DEF Up, CreateInitial
<1>2. /\ TablesAt(0) = {} /\ TablesAt(1) = names /\ UsesAt(1) = UsesAt(0)
      /\ \A t \in TypeNames : LabelsAt(1, t) = LabelsAt(0, t)
  <2>1. TablesAt(0) = {} /\ TablesAt(1) = names
    BY DEF TablesAt
  <2>2. UsesAt(1) = UsesAt(0)
    BY DEF UsesAt
  <2>3. \A t \in TypeNames : LabelsAt(1, t) = LabelsAt(0, t)
    BY DEF LabelsAt, TypeNames
  <2> QED
    BY <2>1, <2>2, <2>3
<1> HIDE DEF names, kinds
<1>3. Becomes(made, d, d.tables \cap names = {}, d.tables \cup names, d.types, d.uses)
  BY CreateTablesIs
<1> HIDE DEF made
<1>4. Seeded(e, made)
  BY <1>3, SeedIs DEF Becomes
<1> HIDE DEF e
<1>5. At(1, e)
  BY <1>2, <1>3, <1>4 DEF At, Becomes, Seeded
<1>6. d.ok => e.ok
  BY <1>2, <1>3, <1>4 DEF At, Becomes, Seeded
<1>7. \A t \in TypeNames : e.types[t] = d.types[t]
  BY <1>3, <1>4 DEF Becomes, Seeded
<1> QED
  BY <1>1, <1>3, <1>4, <1>5, <1>6, <1>7 DEF Raised, Becomes, Seeded

LEMMA Added2 ==
  /\ TablesAt(2) = TablesAt(1) \cup {"telegram_users"}
  /\ TablesAt(1) \cap {"telegram_users"} = {}
  /\ UsesAt(2) = UsesAt(1) \cup
        {<<"telegram_users", "user_role_enum">>}
  /\ \A t \in TypeNames : LabelsAt(2, t) =
        IF t = "user_role_enum" THEN Roles
        ELSE LabelsAt(1, t)
<1>1. /\ TablesAt(2) = TablesAt(1) \cup {"telegram_users"}
      /\ TablesAt(1) \cap {"telegram_users"} = {}
  BY DEF TablesAt, PlaygroundTables
<1>2. UsesAt(2) = UsesAt(1) \cup
            {<<"telegram_users", "user_role_enum">>}
  BY DEF UsesAt
<1>3. \A t \in TypeNames : LabelsAt(2, t) =
            IF t = "user_role_enum" THEN Roles
            ELSE LabelsAt(1, t)
  BY DEF LabelsAt, TypeNames
<1> QED
  BY <1>1, <1>2, <1>3

LEMMA Up2 ==
  ASSUME NEW d, Schema(d), At(1, d)
  PROVE  Raised(2, d, Up(2, d))
<1> DEFINE typed == CreateType(d, "user_role_enum", Roles)
           names == {"telegram_users"}
           pairs == {<<"telegram_users", "user_role_enum">>}
           e == Use(CreateTables(typed, names), pairs)
<1>1. "user_role_enum" \in TypeNames /\ Roles # {}
  BY TypeNamesAre DEF Roles
<1>2. Up(2, d) = e
  BY DEF Up, CreateTelegramUsers
<1>3. Becomes(typed, d, d.types["user_role_enum"] = {}, d.tables,
              [d.types EXCEPT !["user_role_enum"] = Roles], d.uses)
  BY <1>1, CreateTypeIs
<1> HIDE DEF typed
<1>4. Schema(typed)
  BY <1>3 DEF Becomes
<1>5. Becomes(e, typed,
              /\ typed.tables \cap names = {}
              /\ \A p \in pairs : p[1] \in typed.tables \cup names /\ typed.types[p[2]] # {},
              typed.tables \cup names, typed.types, typed.uses \cup pairs)
  BY <1>4, CreateWithColumns
<1> HIDE DEF e
<1>6. \A t \in TypeNames : e.types[t] = IF t = "user_role_enum" THEN Roles ELSE d.types[t]
  BY <1>3, <1>5 DEF Becomes, Schema
<1>7. e.tables = d.tables \cup names /\ e.uses = d.uses \cup pairs /\ e.body = d.body
  BY <1>3, <1>5 DEF Becomes
<1>8. At(2, e)
  BY <1>1, <1>6, <1>7, Added2 DEF At
<1>9. d.ok /\ Ready(2, d) => e.ok
  BY <1>1, <1>3, <1>5, Added2 DEF Becomes, At, Ready, Schema, Leavable
<1>10. \A t \in TypeNames : LabelsAt(2, t) = {} => e.types[t] = d.types[t]
  BY <1>1, <1>6, Added2
<1> QED
  BY <1>2, <1>3, <1>5, <1>8, <1>9, <1>10 DEF Raised, Becomes

LEMMA Added3 ==
  /\ TablesAt(3) = TablesAt(2) \cup {"llm_prompts", "llm_runtime_settings"}
  /\ TablesAt(2) \cap {"llm_prompts", "llm_runtime_settings"} = {}
  /\ UsesAt(3) = UsesAt(2) \cup
        {<<"llm_prompts", "llm_prompt_key_enum">>,
         <<"llm_runtime_settings", "llm_settings_key_enum">>}
  /\ LabelsAt(2, "llm_prompt_key_enum") = {}
  /\ LabelsAt(2, "llm_settings_key_enum") = {}
  /\ \A t \in TypeNames : LabelsAt(3, t) =
        IF t = "llm_prompt_key_enum" THEN {"INITIAL_REPLY", "FOLLOWUP_REPLY", "CLASSIFICATION"}
        ELSE IF t = "llm_settings_key_enum" THEN {"CLASSIFICATION", "RESPONSE"}
        ELSE LabelsAt(2, t)
<1>1. /\ TablesAt(3) = TablesAt(2) \cup {"llm_prompts", "llm_runtime_settings"}
      /\ TablesAt(2) \cap {"llm_prompts", "llm_runtime_settings"} = {}
  BY DEF TablesAt, PlaygroundTables
<1>2. UsesAt(3) = UsesAt(2) \cup
            {<<"llm_prompts", "llm_prompt_key_enum">>,
             <<"llm_runtime_settings", "llm_settings_key_enum">>}
  BY DEF UsesAt
<1>3. /\ LabelsAt(2, "llm_prompt_key_enum") = {}
      /\ LabelsAt(2, "llm_settings_key_enum") = {}
      /\ \A t \in TypeNames : LabelsAt(3, t) =
            IF t = "llm_prompt_key_enum" THEN {"INITIAL_REPLY", "FOLLOWUP_REPLY", "CLASSIFICATION"}
            ELSE IF t = "llm_settings_key_enum" THEN {"CLASSIFICATION", "RESPONSE"}
            ELSE LabelsAt(2, t)
  BY DEF LabelsAt, TypeNames
<1> QED
  BY <1>1, <1>2, <1>3

LEMMA Up3 ==
  ASSUME NEW d, Schema(d), At(2, d)
  PROVE  Raised(3, d, Up(3, d))
<1> DEFINE prompts == CreateType(d, "llm_prompt_key_enum",
                                 {"INITIAL_REPLY", "FOLLOWUP_REPLY", "CLASSIFICATION"})
           settings == CreateType(prompts, "llm_settings_key_enum", {"CLASSIFICATION", "RESPONSE"})
           empty == Require(settings, d.posted = {} /\ d.twins = {})
           names == {"llm_prompts", "llm_runtime_settings"}
           pairs == {<<"llm_prompts", "llm_prompt_key_enum">>,
                     <<"llm_runtime_settings", "llm_settings_key_enum">>}
           made == Use(CreateTables(empty, names), pairs)
           e == [made EXCEPT !.body = TRUE]
<1>1. "llm_prompt_key_enum" \in TypeNames /\ "llm_settings_key_enum" \in TypeNames
  BY TypeNamesAre
<1>2. Up(3, d) = e
  BY DEF Up, CreateLLMTables
<1>3. Becomes(prompts, d, d.types["llm_prompt_key_enum"] = {}, d.tables,
              [d.types EXCEPT !["llm_prompt_key_enum"] =
                  {"INITIAL_REPLY", "FOLLOWUP_REPLY", "CLASSIFICATION"}], d.uses)
  BY <1>1, CreateTypeIs
<1> HIDE DEF prompts
<1>4. Becomes(settings, prompts, prompts.types["llm_settings_key_enum"] = {}, prompts.tables,
              [prompts.types EXCEPT !["llm_settings_key_enum"] = {"CLASSIFICATION", "RESPONSE"}],
              prompts.uses)
  <2>1. Schema(prompts)
    BY <1>3 DEF Becomes
  <2> QED
    BY <1>1, <2>1, CreateTypeIs
<1> HIDE DEF settings
<1>5. Becomes(empty, settings, d.posted = {} /\ d.twins = {}, settings.tables, settings.types,
              settings.uses)
  <2>1. Schema(settings)
    BY <1>4 DEF Becomes
  <2>2. (d.posted = {} /\ d.twins = {}) \in BOOLEAN
    OBVIOUS
  <2> QED
    BY <2>1, <2>2, RequireIs, Zenon
<1> HIDE DEF empty
<1>6. Becomes(made, empty,
              /\ empty.tables \cap names = {}
              /\ \A p \in pairs : p[1] \in empty.tables \cup names /\ empty.types[p[2]] # {},
              empty.tables \cup names, empty.types, empty.uses \cup pairs)
  <2>1. Schema(empty)
    BY <1>5 DEF Becomes
  <2> QED
    BY <2>1, CreateWithColumns
<1> HIDE DEF made
<1>7. /\ Schema(e) /\ e.body = TRUE /\ e.ok = made.ok
      /\ e.tables = made.tables /\ e.types = made.types /\ e.uses = made.uses
      /\ e.version = made.version /\ e.rules = made.rules /\ e.posted = made.posted /\ e.twins = made.twins
      /\ e.mode = made.mode
  <2>1. Schema(made)
    BY <1>6 DEF Becomes
  <2> QED
    BY <2>1, BodyIs
<1> HIDE DEF e
<1>8. \A t \in TypeNames :
        e.types[t] = IF t = "llm_prompt_key_enum"
                     THEN {"INITIAL_REPLY", "FOLLOWUP_REPLY", "CLASSIFICATION"}
                     ELSE IF t = "llm_settings_key_enum" THEN {"CLASSIFICATION", "RESPONSE"}
                     ELSE d.types[t]
  <2>1. e.types = settings.types
    BY <1>5, <1>6, <1>7 DEF Becomes
  <2>2. settings.types = [prompts.types EXCEPT !["llm_settings_key_enum"] =
                             {"CLASSIFICATION", "RESPONSE"}]
    BY <1>4 DEF Becomes
  <2>3. /\ prompts.types = [t \in TypeNames |-> prompts.types[t]]
        /\ prompts.types = [d.types EXCEPT !["llm_prompt_key_enum"] =
                               {"INITIAL_REPLY", "FOLLOWUP_REPLY", "CLASSIFICATION"}]
    BY <1>3 DEF Becomes, Schema
  <2>4. d.types = [t \in TypeNames |-> d.types[t]]
    BY DEF Schema
  <2>5. \A t \in TypeNames :
          /\ e.types[t] = IF t = "llm_settings_key_enum" THEN {"CLASSIFICATION", "RESPONSE"}
                          ELSE prompts.types[t]
          /\ prompts.types[t] = IF t = "llm_prompt_key_enum"
                                THEN {"INITIAL_REPLY", "FOLLOWUP_REPLY", "CLASSIFICATION"}
                                ELSE d.types[t]
    BY <2>1, <2>2, <2>3, <2>4
  <2> QED
    BY <2>5
<1>9. e.tables = d.tables \cup names /\ e.uses = d.uses \cup pairs
  <2>1. empty.tables = d.tables /\ empty.uses = d.uses
    BY <1>3, <1>4, <1>5 DEF Becomes
  <2> QED
    BY <1>6, <1>7, <2>1 DEF Becomes
<1>10. At(3, e)
  <2>1. e.tables = TablesAt(3) /\ e.uses = UsesAt(3)
    BY <1>9, Added3 DEF At
  <2>2. \A t \in TypeNames :
          LabelsAt(3, t) # {} \/ t \notin Leavable => e.types[t] = LabelsAt(3, t)
    BY <1>1, <1>8, Added3 DEF At
  <2>3. (3 >= 3) = TRUE
    OBVIOUS
  <2>4. e.body = (3 >= 3)
    BY <1>7, <2>3, Zenon
  <2> QED
    BY <2>1, <2>2, <2>4, Zenon DEF At
<1>11. d.ok /\ Ready(3, d) => e.ok
  <2> SUFFICES ASSUME d.ok, d.posted = {}, d.twins = {} PROVE e.ok
    BY DEF Ready
  <2>1. /\ d.types["llm_prompt_key_enum"] = {} /\ d.types["llm_settings_key_enum"] = {}
        /\ d.tables \cap names = {}
    BY <1>1, Added3 DEF At, Leavable
  <2>2. prompts.ok
    BY <1>3, <2>1 DEF Becomes
  <2>3. settings.ok
    BY <1>1, <1>3, <1>4, <2>1, <2>2 DEF Becomes, Schema
  <2>4. empty.ok
    BY <1>5, <2>3 DEF Becomes
  <2>5. \A p \in pairs : p[1] \in empty.tables \cup names /\ empty.types[p[2]] # {}
    BY <1>1, <1>6, <1>7, <1>8 DEF Becomes
  <2>6. empty.tables \cap names = {}
    <3>1. empty.tables = d.tables
      BY <1>3, <1>4, <1>5 DEF Becomes
    <3> QED
      BY <2>1, <3>1
  <2>7. made.ok
    BY <1>6, <2>4, <2>5, <2>6, Zenon DEF Becomes
  <2> QED
    BY <1>7, <2>7
<1>12. \A t \in TypeNames : LabelsAt(3, t) = {} => e.types[t] = d.types[t]
  BY <1>8, Added3
<1>13. /\ e.version = d.version /\ e.posted = d.posted /\ e.twins = d.twins /\ e.mode = d.mode /\ e.rules = d.rules
       /\ e.ok => d.ok
  BY <1>3, <1>4, <1>5, <1>6, <1>7 DEF Becomes
<1> QED
  BY <1>2, <1>7, <1>10, <1>11, <1>12, <1>13 DEF Raised

LEMMA Added4 ==
  /\ TablesAt(4) = TablesAt(3) \cup {"merchant_listings"}
  /\ TablesAt(3) \cap {"merchant_listings"} = {}
  /\ UsesAt(4) = UsesAt(3)
  /\ \A t \in TypeNames : LabelsAt(4, t) = LabelsAt(3, t)
<1>1. /\ TablesAt(4) = TablesAt(3) \cup {"merchant_listings"}
      /\ TablesAt(3) \cap {"merchant_listings"} = {}
  BY DEF TablesAt, PlaygroundTables
<1>2. UsesAt(4) = UsesAt(3)
  BY DEF UsesAt
<1>3. \A t \in TypeNames : LabelsAt(4, t) = LabelsAt(3, t)
  BY DEF LabelsAt, TypeNames
<1> QED
  BY <1>1, <1>2, <1>3

LEMMA Up4 ==
  ASSUME NEW d, Schema(d), At(3, d)
  PROVE  Raised(4, d, Up(4, d))
<1> DEFINE names == {"merchant_listings"}
           e == CreateTables(d, names)
<1>1. Up(4, d) = e
  BY DEF Up, CreateListings
<1>2. Becomes(e, d, d.tables \cap names = {}, d.tables \cup names, d.types, d.uses)
  BY CreateTablesIs
<1> HIDE DEF e
<1>3. \A t \in TypeNames : e.types[t] = d.types[t]
  BY <1>2 DEF Becomes, Schema
<1>4. e.tables = d.tables \cup names /\ e.uses = d.uses /\ e.body = d.body
  BY <1>2 DEF Becomes
<1>5. At(4, e)
  BY <1>3, <1>4, Added4 DEF At
<1>6. d.ok /\ Ready(4, d) => e.ok
  BY <1>2, Added4 DEF Becomes, At, Ready, Schema, Leavable
<1>7. \A t \in TypeNames : LabelsAt(4, t) = {} => e.types[t] = d.types[t]
  BY <1>3, Added4
<1> QED
  BY <1>1, <1>2, <1>5, <1>6, <1>7 DEF Raised, Becomes

LEMMA Added5 ==
  /\ TablesAt(5) = TablesAt(4) \cup {"zendesk_runtime_settings"}
  /\ TablesAt(4) \cap {"zendesk_runtime_settings"} = {}
  /\ "our_posts" \in TablesAt(4)
  /\ UsesAt(5) = UsesAt(4) \cup
        {<<"zendesk_runtime_settings", "post_channel_enum">>,
         <<"our_posts", "post_channel_enum">>}
  /\ \A t \in TypeNames : LabelsAt(5, t) =
        IF t = "post_channel_enum" THEN Channels
        ELSE LabelsAt(4, t)
<1>1. /\ TablesAt(5) = TablesAt(4) \cup {"zendesk_runtime_settings"}
      /\ TablesAt(4) \cap {"zendesk_runtime_settings"} = {}
      /\ "our_posts" \in TablesAt(4)
  BY DEF TablesAt, PlaygroundTables
<1>2. UsesAt(5) = UsesAt(4) \cup
            {<<"zendesk_runtime_settings", "post_channel_enum">>,
             <<"our_posts", "post_channel_enum">>}
  BY DEF UsesAt
<1>3. \A t \in TypeNames : LabelsAt(5, t) =
            IF t = "post_channel_enum" THEN Channels
            ELSE LabelsAt(4, t)
  BY DEF LabelsAt, TypeNames
<1> QED
  BY <1>1, <1>2, <1>3

LEMMA Up5 ==
  ASSUME NEW d, Schema(d), At(4, d)
  PROVE  Raised(5, d, Up(5, d))
<1> DEFINE typed == CreateType(d, "post_channel_enum", Channels)
           names == {"zendesk_runtime_settings"}
           pairs == {<<"zendesk_runtime_settings", "post_channel_enum">>,
                     <<"our_posts", "post_channel_enum">>}
           cast == Require(typed, d.posted \subseteq Channels)
           e == Use(CreateTables(cast, names), pairs)
<1>1. "post_channel_enum" \in TypeNames /\ Channels # {}
  BY TypeNamesAre DEF Channels
<1>2. Up(5, d) = e
  <2>1. CreateReviewChannel(d) = Use(CreateTables(Require(typed, d.posted \subseteq Channels), names), pairs)
    BY DEF CreateReviewChannel
  <2> QED
    BY <2>1 DEF Up
<1>3. Becomes(typed, d, d.types["post_channel_enum"] = {}, d.tables,
              [d.types EXCEPT !["post_channel_enum"] = Channels], d.uses)
  BY <1>1, CreateTypeIs
<1>0. typed.posted = d.posted
  BY <1>3 DEF Becomes
<1> HIDE DEF typed
<1>11. Becomes(cast, typed, d.posted \subseteq Channels, typed.tables, typed.types, typed.uses)
  <2>1. Schema(typed)
    BY <1>3 DEF Becomes
  <2>2. (d.posted \subseteq Channels) \in BOOLEAN
    OBVIOUS
  <2> QED
    BY <2>1, <2>2, RequireIs, Zenon
<1> HIDE DEF cast
<1>4. Schema(cast)
  BY <1>11 DEF Becomes
<1>5. Becomes(e, cast,
              /\ cast.tables \cap names = {}
              /\ \A p \in pairs : p[1] \in cast.tables \cup names /\ cast.types[p[2]] # {},
              cast.tables \cup names, cast.types, cast.uses \cup pairs)
  BY <1>4, CreateWithColumns
<1> HIDE DEF e
<1>6. \A t \in TypeNames : e.types[t] = IF t = "post_channel_enum" THEN Channels ELSE d.types[t]
  BY <1>3, <1>5, <1>11 DEF Becomes, Schema
<1>7. e.tables = d.tables \cup names /\ e.uses = d.uses \cup pairs /\ e.body = d.body
  BY <1>3, <1>5, <1>11 DEF Becomes
<1>8. At(5, e)
  BY <1>1, <1>6, <1>7, Added5 DEF At
<1>9. d.ok /\ Ready(5, d) => e.ok
  BY <1>1, <1>3, <1>5, <1>11, Added5 DEF Becomes, At, Ready, Schema, Leavable
<1>10. \A t \in TypeNames : LabelsAt(5, t) = {} => e.types[t] = d.types[t]
  BY <1>1, <1>6, Added5
<1> QED
  BY <1>2, <1>3, <1>5, <1>8, <1>9, <1>10, <1>11 DEF Raised, Becomes

LEMMA Added6 ==
  /\ TablesAt(6) = TablesAt(5) \cup {"admin_users"}
  /\ TablesAt(5) \cap {"admin_users"} = {}
  /\ UsesAt(6) = UsesAt(5) \cup
        {<<"admin_users", "user_role_enum">>}
  /\ LabelsAt(5, "user_role_enum") = Roles
  /\ \A t \in TypeNames : LabelsAt(6, t) = LabelsAt(5, t)
<1>1. /\ TablesAt(6) = TablesAt(5) \cup {"admin_users"}
      /\ TablesAt(5) \cap {"admin_users"} = {}
  BY DEF TablesAt, PlaygroundTables
<1>2. UsesAt(6) = UsesAt(5) \cup
            {<<"admin_users", "user_role_enum">>}
  BY DEF UsesAt
<1>3. /\ LabelsAt(5, "user_role_enum") = Roles
      /\ \A t \in TypeNames : LabelsAt(6, t) = LabelsAt(5, t)
  BY DEF LabelsAt, TypeNames
<1> QED
  BY <1>1, <1>2, <1>3

LEMMA Up6 ==
  ASSUME NEW d, Schema(d), At(5, d)
  PROVE  Raised(6, d, Up(6, d))
<1> DEFINE names == {"admin_users"}
           pairs == {<<"admin_users", "user_role_enum">>}
           e == Use(CreateTables(d, names), pairs)
<1>1. "user_role_enum" \in TypeNames /\ Roles # {}
  BY TypeNamesAre DEF Roles
<1>2. Up(6, d) = e
  BY DEF Up, CreateAdminUsers
<1>3. Becomes(e, d,
              /\ d.tables \cap names = {}
              /\ \A p \in pairs : p[1] \in d.tables \cup names /\ d.types[p[2]] # {},
              d.tables \cup names, d.types, d.uses \cup pairs)
  BY CreateWithColumns
<1> HIDE DEF e
<1>4. \A t \in TypeNames : e.types[t] = d.types[t]
  BY <1>3 DEF Becomes, Schema
<1>5. e.tables = d.tables \cup names /\ e.uses = d.uses \cup pairs /\ e.body = d.body
  BY <1>3 DEF Becomes
<1>6. At(6, e)
  BY <1>1, <1>4, <1>5, Added6 DEF At
<1>7. d.ok /\ Ready(6, d) => e.ok
  BY <1>1, <1>3, Added6 DEF Becomes, At, Ready, Schema, Leavable
<1>8. \A t \in TypeNames : LabelsAt(6, t) = {} => e.types[t] = d.types[t]
  BY <1>1, <1>4, Added6
<1> QED
  BY <1>2, <1>3, <1>6, <1>7, <1>8 DEF Raised, Becomes

LEMMA Added7 ==
  /\ TablesAt(7) = TablesAt(6) \cup {"ticket_reply_attempts"}
  /\ TablesAt(6) \cap {"ticket_reply_attempts"} = {}
  /\ UsesAt(7) = UsesAt(6) \cup
        {<<"ticket_reply_attempts", "post_channel_enum">>,
         <<"ticket_reply_attempts", "reply_attempt_status_enum">>}
  /\ LabelsAt(6, "post_channel_enum") = Channels
  /\ LabelsAt(6, "reply_attempt_status_enum") = {}
  /\ \A t \in TypeNames : LabelsAt(7, t) =
        IF t = "reply_attempt_status_enum" THEN AttemptStatuses
        ELSE LabelsAt(6, t)
<1>1. /\ TablesAt(7) = TablesAt(6) \cup {"ticket_reply_attempts"}
      /\ TablesAt(6) \cap {"ticket_reply_attempts"} = {}
  BY DEF TablesAt, PlaygroundTables
<1>2. UsesAt(7) = UsesAt(6) \cup
            {<<"ticket_reply_attempts", "post_channel_enum">>,
             <<"ticket_reply_attempts", "reply_attempt_status_enum">>}
  BY DEF UsesAt
<1>3. /\ LabelsAt(6, "post_channel_enum") = Channels
      /\ LabelsAt(6, "reply_attempt_status_enum") = {}
      /\ \A t \in TypeNames : LabelsAt(7, t) =
            IF t = "reply_attempt_status_enum" THEN AttemptStatuses
            ELSE LabelsAt(6, t)
  BY DEF LabelsAt, TypeNames
<1> QED
  BY <1>1, <1>2, <1>3

LEMMA Up7 ==
  ASSUME NEW d, Schema(d), At(6, d)
  PROVE  Raised(7, d, Up(7, d))
<1> DEFINE typed == CreateType(d, "reply_attempt_status_enum", AttemptStatuses)
           names == {"ticket_reply_attempts"}
           pairs == {<<"ticket_reply_attempts", "post_channel_enum">>,
                     <<"ticket_reply_attempts", "reply_attempt_status_enum">>}
           e == Use(CreateTables(typed, names), pairs)
<1>1. /\ "reply_attempt_status_enum" \in TypeNames /\ AttemptStatuses # {}
      /\ "post_channel_enum" \in TypeNames /\ Channels # {}
  BY TypeNamesAre DEF AttemptStatuses, Channels
<1>2. Up(7, d) = e
  BY DEF Up, CreateAttempts
<1>3. Becomes(typed, d, d.types["reply_attempt_status_enum"] = {}, d.tables,
              [d.types EXCEPT !["reply_attempt_status_enum"] = AttemptStatuses], d.uses)
  BY <1>1, CreateTypeIs
<1> HIDE DEF typed
<1>4. Schema(typed)
  BY <1>3 DEF Becomes
<1>5. Becomes(e, typed,
              /\ typed.tables \cap names = {}
              /\ \A p \in pairs : p[1] \in typed.tables \cup names /\ typed.types[p[2]] # {},
              typed.tables \cup names, typed.types, typed.uses \cup pairs)
  BY <1>4, CreateWithColumns
<1> HIDE DEF e
<1>6. \A t \in TypeNames : e.types[t] = IF t = "reply_attempt_status_enum" THEN AttemptStatuses ELSE d.types[t]
  BY <1>3, <1>5 DEF Becomes, Schema
<1>7. e.tables = d.tables \cup names /\ e.uses = d.uses \cup pairs /\ e.body = d.body
  BY <1>3, <1>5 DEF Becomes
<1>8. At(7, e)
  BY <1>1, <1>6, <1>7, Added7 DEF At
<1>9. d.ok /\ Ready(7, d) => e.ok
  BY <1>1, <1>3, <1>5, Added7 DEF Becomes, At, Ready, Schema, Leavable
<1>10. \A t \in TypeNames : LabelsAt(7, t) = {} => e.types[t] = d.types[t]
  BY <1>1, <1>6, Added7
<1> QED
  BY <1>2, <1>3, <1>5, <1>8, <1>9, <1>10 DEF Raised, Becomes

LEMMA Added8 ==
  /\ TablesAt(8) = TablesAt(7) \cup PlaygroundTables
  /\ TablesAt(7) \cap PlaygroundTables = {}
  /\ UsesAt(8) = UsesAt(7) \cup
        {<<"llm_playground_tickets", "llm_playground_ticket_status_enum">>,
         <<"llm_playground_messages", "llm_playground_message_role_enum">>,
         <<"llm_playground_runs", "llm_playground_run_status_enum">>}
  /\ LabelsAt(7, "llm_playground_ticket_status_enum") = {}
  /\ LabelsAt(7, "llm_playground_message_role_enum") = {}
  /\ LabelsAt(7, "llm_playground_run_status_enum") = {}
  /\ \A t \in TypeNames : LabelsAt(8, t) =
        IF t = "llm_playground_ticket_status_enum" THEN TicketStatuses
        ELSE IF t = "llm_playground_message_role_enum" THEN MessageRoles
        ELSE IF t = "llm_playground_run_status_enum" THEN RunStatuses
        ELSE LabelsAt(7, t)
<1>1. /\ TablesAt(8) = TablesAt(7) \cup PlaygroundTables
      /\ TablesAt(7) \cap PlaygroundTables = {}
  BY DEF TablesAt, PlaygroundTables
<1>2. UsesAt(8) = UsesAt(7) \cup
            {<<"llm_playground_tickets", "llm_playground_ticket_status_enum">>,
             <<"llm_playground_messages", "llm_playground_message_role_enum">>,
             <<"llm_playground_runs", "llm_playground_run_status_enum">>}
  BY DEF UsesAt
<1>3. /\ LabelsAt(7, "llm_playground_ticket_status_enum") = {}
      /\ LabelsAt(7, "llm_playground_message_role_enum") = {}
      /\ LabelsAt(7, "llm_playground_run_status_enum") = {}
      /\ \A t \in TypeNames : LabelsAt(8, t) =
            IF t = "llm_playground_ticket_status_enum" THEN TicketStatuses
            ELSE IF t = "llm_playground_message_role_enum" THEN MessageRoles
            ELSE IF t = "llm_playground_run_status_enum" THEN RunStatuses
            ELSE LabelsAt(7, t)
  BY DEF LabelsAt, TypeNames
<1> QED
  BY <1>1, <1>2, <1>3

LEMMA Up8 ==
  ASSUME NEW d, Schema(d), At(7, d)
  PROVE  Raised(8, d, Up(8, d))
<1> DEFINE status == "llm_playground_ticket_status_enum"
           role == "llm_playground_message_role_enum"
           run == "llm_playground_run_status_enum"
           statuses == CheckFirstType(d, status, TicketStatuses)
           roles == CheckFirstType(statuses, role, MessageRoles)
           runs == CheckFirstType(roles, run, RunStatuses)
           pairs == {<<"llm_playground_tickets", status>>, <<"llm_playground_messages", role>>,
                     <<"llm_playground_runs", run>>}
           e == Use(CreateTables(runs, PlaygroundTables), pairs)
<1>1. /\ status \in TypeNames /\ role \in TypeNames /\ run \in TypeNames
      /\ status # role /\ status # run /\ role # run
      /\ TicketStatuses # {} /\ MessageRoles # {} /\ RunStatuses # {}
  BY TypeNamesAre DEF TicketStatuses, MessageRoles, RunStatuses
<1>2. Up(8, d) = e
  BY DEF Up, CreatePlayground
<1>3. d.types[status] = {} /\ d.types[role] = {} /\ d.types[run] = {}
  BY <1>1, Added8 DEF At, Leavable
<1>4. Becomes(statuses, d, TRUE, d.tables, [d.types EXCEPT ![status] = TicketStatuses], d.uses)
  BY <1>1, <1>3, CreateTypeIs DEF CheckFirstType, Becomes
<1>5. \A p \in pairs : /\ p[2] \in {status, role, run}
                       /\ p[1] \in PlaygroundTables
  BY DEF PlaygroundTables
<1>6. /\ TablesAt(8) = TablesAt(7) \cup PlaygroundTables
      /\ TablesAt(7) \cap PlaygroundTables = {}
      /\ UsesAt(8) = UsesAt(7) \cup pairs
      /\ \A t \in TypeNames : LabelsAt(8, t) = IF t = status THEN TicketStatuses
                                               ELSE IF t = role THEN MessageRoles
                                               ELSE IF t = run THEN RunStatuses
                                               ELSE LabelsAt(7, t)
  BY Added8
<1> HIDE DEF status, role, run, statuses, pairs
<1>7. /\ Becomes(roles, statuses, TRUE, statuses.tables,
                 [statuses.types EXCEPT ![role] = MessageRoles], statuses.uses)
      /\ statuses.types[role] = {}
  <2>1. Schema(statuses) /\ statuses.types[role] = {}
    BY <1>1, <1>3, <1>4 DEF Becomes, Schema
  <2> QED
    BY <1>1, <2>1, CreateTypeIs DEF CheckFirstType, Becomes
<1> HIDE DEF roles
<1>8. /\ Becomes(runs, roles, TRUE, roles.tables, [roles.types EXCEPT ![run] = RunStatuses],
                 roles.uses)
      /\ roles.types[run] = {}
  <2>1. Schema(roles) /\ roles.types[run] = {}
    BY <1>1, <1>3, <1>4, <1>7 DEF Becomes, Schema
  <2> QED
    BY <1>1, <2>1, CreateTypeIs DEF CheckFirstType, Becomes
<1> HIDE DEF runs
<1>9. Becomes(e, runs,
              /\ runs.tables \cap PlaygroundTables = {}
              /\ \A p \in pairs : p[1] \in runs.tables \cup PlaygroundTables /\ runs.types[p[2]] # {},
              runs.tables \cup PlaygroundTables, runs.types, runs.uses \cup pairs)
  <2>1. Schema(runs)
    BY <1>8 DEF Becomes
  <2> QED
    BY <2>1, CreateWithColumns
<1> HIDE DEF e
<1>10. \A t \in TypeNames : e.types[t] = IF t = status THEN TicketStatuses
                                         ELSE IF t = role THEN MessageRoles
                                         ELSE IF t = run THEN RunStatuses
                                         ELSE d.types[t]
  BY <1>1, <1>4, <1>7, <1>8, <1>9 DEF Becomes, Schema
<1>11. /\ e.tables = d.tables \cup PlaygroundTables /\ e.uses = d.uses \cup pairs
       /\ e.version = d.version /\ e.posted = d.posted /\ e.twins = d.twins /\ e.mode = d.mode
       /\ e.rules = d.rules /\ e.body = d.body
       /\ e.ok => d.ok
  BY <1>4, <1>7, <1>8, <1>9 DEF Becomes
<1>12. At(8, e)
  BY <1>1, <1>6, <1>10, <1>11 DEF At
<1>13. d.ok => e.ok
  <2>1. runs.ok = d.ok /\ runs.tables = d.tables /\ runs.types = e.types
    BY <1>4, <1>7, <1>8, <1>9 DEF Becomes, Schema
  <2>2. \A p \in pairs : p[1] \in runs.tables \cup PlaygroundTables /\ runs.types[p[2]] # {}
    BY <1>1, <1>5, <1>10, <2>1
  <2> QED
    BY <1>6, <1>9, <2>1, <2>2 DEF At, Becomes
<1>14. \A t \in TypeNames : LabelsAt(8, t) = {} => e.types[t] = d.types[t]
  BY <1>1, <1>6, <1>10
<1>15. Schema(e)
  BY <1>9 DEF Becomes
<1> QED
  BY <1>2, <1>11, <1>12, <1>13, <1>14, <1>15 DEF Raised

LEMMA Added9 ==
  /\ TablesAt(9) = TablesAt(8) \cup {"ticket_classification_audits"}
  /\ TablesAt(8) \cap {"ticket_classification_audits"} = {}
  /\ UsesAt(9) = UsesAt(8)
  /\ \A t \in TypeNames : LabelsAt(9, t) = LabelsAt(8, t)
<1>1. /\ TablesAt(9) = TablesAt(8) \cup {"ticket_classification_audits"}
      /\ TablesAt(8) \cap {"ticket_classification_audits"} = {}
  BY DEF TablesAt, PlaygroundTables
<1>2. UsesAt(9) = UsesAt(8)
  BY DEF UsesAt
<1>3. \A t \in TypeNames : LabelsAt(9, t) = LabelsAt(8, t)
  BY DEF LabelsAt, TypeNames
<1> QED
  BY <1>1, <1>2, <1>3

LEMMA Up9 ==
  ASSUME NEW d, Schema(d), At(8, d)
  PROVE  Raised(9, d, Up(9, d))
<1> DEFINE names == {"ticket_classification_audits"}
           made == CreateTables(d, names)
           e == Seed(made, "b4a2f9c1d8e0", {"spam_body_pattern"})
<1>1. Up(9, d) = e
  BY DEF Up, CreateAudits
<1>2. Becomes(made, d, d.tables \cap names = {}, d.tables \cup names, d.types, d.uses)
  BY CreateTablesIs
<1> HIDE DEF made
<1>3. Seeded(e, made)
  BY <1>2, SeedIs DEF Becomes
<1> HIDE DEF e
<1>4. At(9, e)
  BY <1>2, <1>3, Added9 DEF At, Becomes, Seeded
<1>5. d.ok => e.ok
  BY <1>2, <1>3, Added9 DEF At, Becomes, Seeded
<1>6. \A t \in TypeNames : e.types[t] = d.types[t]
  BY <1>2, <1>3 DEF Becomes, Seeded
<1> QED
  BY <1>1, <1>2, <1>3, <1>4, <1>5, <1>6 DEF Raised, Becomes, Seeded

LEMMA Added10 ==
  /\ TablesAt(10) = TablesAt(9)
  /\ UsesAt(10) = UsesAt(9)
  /\ \A t \in TypeNames : LabelsAt(10, t) = LabelsAt(9, t)
<1>1. TablesAt(10) = TablesAt(9)
  BY DEF TablesAt, PlaygroundTables
<1>2. UsesAt(10) = UsesAt(9)
  BY DEF UsesAt
<1>3. \A t \in TypeNames : LabelsAt(10, t) = LabelsAt(9, t)
  BY DEF LabelsAt, TypeNames
<1> QED
  BY <1>1, <1>2, <1>3

LEMMA Up10 ==
  ASSUME NEW d, Schema(d), At(9, d)
  PROVE  Raised(10, d, Up(10, d))
<1>1. Seeded(Up(10, d), d)
  BY SeedIs DEF Up, SeedBodyRules
<1>2. At(10, Up(10, d))
  BY <1>1, Added10 DEF At, Seeded
<1> QED
  BY <1>1, <1>2 DEF Raised, Seeded

LEMMA Added11 ==
  /\ TablesAt(11) = TablesAt(10) \cup {"ticket_comment_attachments"}
  /\ TablesAt(10) \cap {"ticket_comment_attachments"} = {}
  /\ UsesAt(11) = UsesAt(10)
  /\ \A t \in TypeNames : LabelsAt(11, t) = LabelsAt(10, t)
<1>1. /\ TablesAt(11) = TablesAt(10) \cup {"ticket_comment_attachments"}
      /\ TablesAt(10) \cap {"ticket_comment_attachments"} = {}
  BY DEF TablesAt, PlaygroundTables
<1>2. UsesAt(11) = UsesAt(10)
  BY DEF UsesAt
<1>3. \A t \in TypeNames : LabelsAt(11, t) = LabelsAt(10, t)
  BY DEF LabelsAt, TypeNames
<1> QED
  BY <1>1, <1>2, <1>3

LEMMA Up11 ==
  ASSUME NEW d, Schema(d), At(10, d)
  PROVE  Raised(11, d, Up(11, d))
<1> DEFINE names == {"ticket_comment_attachments"}
           e == CreateTables(d, names)
<1>1. Up(11, d) = e
  BY DEF Up, CreateAttachments
<1>2. Becomes(e, d, d.tables \cap names = {}, d.tables \cup names, d.types, d.uses)
  BY CreateTablesIs
<1> HIDE DEF e
<1>3. \A t \in TypeNames : e.types[t] = d.types[t]
  BY <1>2 DEF Becomes, Schema
<1>4. e.tables = d.tables \cup names /\ e.uses = d.uses /\ e.body = d.body
  BY <1>2 DEF Becomes
<1>5. At(11, e)
  BY <1>3, <1>4, Added11 DEF At
<1>6. d.ok /\ Ready(11, d) => e.ok
  BY <1>2, Added11 DEF Becomes, At, Ready, Schema, Leavable
<1>7. \A t \in TypeNames : LabelsAt(11, t) = {} => e.types[t] = d.types[t]
  BY <1>3, Added11
<1> QED
  BY <1>1, <1>2, <1>5, <1>6, <1>7 DEF Raised, Becomes

LEMMA Added12 ==
  /\ TablesAt(12) = TablesAt(11)
  /\ UsesAt(12) = UsesAt(11)
  /\ LabelsAt(11, "post_channel_enum") = Channels
  /\ \A t \in TypeNames : LabelsAt(12, t) =
        IF t = "post_channel_enum" THEN Channels \cup {"OFF"}
        ELSE LabelsAt(11, t)
<1>1. TablesAt(12) = TablesAt(11)
  BY DEF TablesAt, PlaygroundTables
<1>2. UsesAt(12) = UsesAt(11)
  BY DEF UsesAt
<1>3. /\ LabelsAt(11, "post_channel_enum") = Channels
      /\ \A t \in TypeNames : LabelsAt(12, t) =
            IF t = "post_channel_enum" THEN Channels \cup {"OFF"}
            ELSE LabelsAt(11, t)
  BY DEF LabelsAt, TypeNames
<1> QED
  BY <1>1, <1>2, <1>3

LEMMA Up12 ==
  ASSUME NEW d, Schema(d), At(11, d)
  PROVE  Raised(12, d, Up(12, d))
<1> DEFINE there == Require(d, d.types["post_channel_enum"] # {})
           e == [there EXCEPT !.types["post_channel_enum"] =
                     there.types["post_channel_enum"] \cup {"OFF"}]
<1>1. "post_channel_enum" \in TypeNames /\ Channels # {} /\ Channels \cup {"OFF"} # {}
  BY TypeNamesAre DEF Channels
<1>2. d.types["post_channel_enum"] = Channels
  BY <1>1, Added12 DEF At
<1>3. Up(12, d) = e
  BY DEF Up, AddOff
<1>4. Becomes(there, d, d.types["post_channel_enum"] # {}, d.tables, d.types, d.uses)
  BY RequireIs
<1> HIDE DEF there
<1>5. Becomes(e, d, d.types["post_channel_enum"] # {}, d.tables,
              [d.types EXCEPT !["post_channel_enum"] = Channels \cup {"OFF"}], d.uses)
  <2> DEFINE types == [d.types EXCEPT !["post_channel_enum"] = Channels \cup {"OFF"}]
  <2>1. e = [there EXCEPT !.types = types]
    BY <1>2, <1>4 DEF Becomes
  <2>2. types = [t \in TypeNames |-> types[t]]
    BY DEF Schema
  <2> HIDE DEF e, types
  <2>3. Becomes(e, d, d.types["post_channel_enum"] # {}, d.tables, types, d.uses)
    BY <1>4, <2>1, <2>2 DEF Becomes, Schema
  <2> QED
    BY <2>3 DEF types
<1> HIDE DEF e
<1>6. \A t \in TypeNames :
        e.types[t] = IF t = "post_channel_enum" THEN Channels \cup {"OFF"} ELSE d.types[t]
  BY <1>1, <1>5 DEF Becomes, Schema
<1>7. At(12, e)
  BY <1>1, <1>5, <1>6, Added12 DEF At, Becomes
<1>8. \A t \in TypeNames : LabelsAt(12, t) = {} => e.types[t] = d.types[t]
  BY <1>1, <1>6, Added12
<1> QED
  BY <1>1, <1>2, <1>3, <1>5, <1>7, <1>8 DEF Raised, Becomes

-----------------------------------------------------------------------------
\* What downgrade() of a revision makes of its schema, if it does not fail.
Lowered(v, d, e) ==
    /\ Schema(e) /\ At(v, e)
    /\ e.version = d.version /\ e.posted = d.posted
    /\ e.mode = d.mode \/ e.mode = "none"
    /\ \A rule \in d.rules : rule.author = "admin" => rule \in e.rules
    /\ e.ok => d.ok

\* Only tables have columns.
LEMMA UsesInTables ==
  ASSUME NEW v \in 0..12
  PROVE  \A use \in UsesAt(v) : use[1] \in TablesAt(v)
<1> TAKE use \in UsesAt(v)
<1>1. \/ v >= 2 /\ use = <<"telegram_users", "user_role_enum">>
      \/ v >= 3 /\ use = <<"llm_prompts", "llm_prompt_key_enum">>
      \/ v >= 3 /\ use = <<"llm_runtime_settings", "llm_settings_key_enum">>
      \/ v >= 5 /\ use = <<"zendesk_runtime_settings", "post_channel_enum">>
      \/ v >= 5 /\ use = <<"our_posts", "post_channel_enum">>
      \/ v >= 6 /\ use = <<"admin_users", "user_role_enum">>
      \/ v >= 7 /\ use[1] = "ticket_reply_attempts"
      \/ v >= 8 /\ use[1] \in PlaygroundTables
  BY DEF UsesAt, PlaygroundTables
<1> QED
  BY <1>1 DEF TablesAt

\* To drop the tables that a revision has added is to undo it.
Undone(e, d, tables, uses) ==
    /\ Schema(e)
    /\ e.ok => d.ok
    /\ e.tables = tables /\ e.types = d.types /\ e.uses = uses
    /\ e.version = d.version /\ e.body = d.body /\ e.rules = d.rules
    /\ e.posted = d.posted /\ e.twins = d.twins /\ e.mode = d.mode
LEMMA DropAdded ==
  ASSUME NEW v \in 0..12, NEW w, NEW d, Schema(d), At(w, d), NEW names, NEW pairs,
         TablesAt(w) = TablesAt(v) \cup names, TablesAt(v) \cap names = {},
         UsesAt(w) = UsesAt(v) \cup pairs, \A p \in pairs : p[1] \in names
  PROVE  Undone(DropTables(d, names), d, TablesAt(v), UsesAt(v))
<1> DEFINE e == DropTables(d, names)
<1>1. Becomes(e, d, names \subseteq d.tables, d.tables \ names, d.types,
              {use \in d.uses : use[1] \notin names})
  BY DropTablesIs
<1> HIDE DEF e
<1>2. d.tables \ names = TablesAt(v)
  BY DEF At
<1>3. {use \in d.uses : use[1] \notin names} = UsesAt(v)
  BY UsesInTables DEF At
<1>4. Undone(e, d, TablesAt(v), UsesAt(v))
  BY <1>1, <1>2, <1>3 DEF Becomes, Undone
<1> QED
  BY <1>4 DEF e

\* The enum types are those of an earlier revision, the others perhaps left behind.
TypesAt(v, types) ==
    \A t \in TypeNames : LabelsAt(v, t) # {} \/ t \notin Leavable => types[t] = LabelsAt(v, t)
LEMMA BackAt ==
  ASSUME NEW v \in Int, NEW w \in Int, NEW d, At(w, d), NEW e,
         e.tables = TablesAt(v), e.uses = UsesAt(v), TypesAt(v, e.types),
         e.body = d.body, v >= 3 <=> w >= 3
  PROVE  At(v, e)
<1>1. (v >= 3) = (w >= 3)
  OBVIOUS
<1>2. e.body = (v >= 3)
  BY <1>1, Zenon DEF At
<1> QED
  BY <1>2, Zenon DEF At, TypesAt

Dropped(e, d, type) ==
    /\ Schema(e)
    /\ e.ok => d.ok
    /\ e.tables = d.tables /\ e.uses = d.uses
    /\ e.version = d.version /\ e.body = d.body /\ e.rules = d.rules
    /\ e.posted = d.posted /\ e.twins = d.twins /\ e.mode = d.mode
    /\ \A t \in TypeNames : e.types[t] = IF t = type THEN {} ELSE d.types[t]
LEMMA TypeDropped ==
  ASSUME NEW d, Schema(d), NEW type \in TypeNames
  PROVE  Dropped(DropType(d, type), d, type) /\ Dropped(CheckFirstDrop(d, type), d, type)
<1> DEFINE e == DropType(d, type)
<1>1. Becomes(e, d, d.types[type] # {} /\ \A use \in d.uses : use[2] # type,
              d.tables, [d.types EXCEPT ![type] = {}], d.uses)
  BY DropTypeIs
<1>2. CheckFirstDrop(d, type) = IF d.types[type] = {} THEN d ELSE e
  BY DEF CheckFirstDrop
<1> HIDE DEF e
<1>3. \A t \in TypeNames : e.types[t] = IF t = type THEN {} ELSE d.types[t]
  BY <1>1 DEF Becomes, Schema
<1>4. Dropped(e, d, type)
  BY <1>1, <1>3, Zenon DEF Dropped, Becomes
<1>5. d.types[type] = {} => Dropped(d, d, type)
  BY DEF Dropped
<1> QED
  BY <1>2, <1>4, <1>5 DEF e

LEMMA TwinsAre ==
  ASSUME NEW d, Schema(d), NEW twins
  PROVE  LET e == [d EXCEPT !.twins = twins] IN
         /\ Schema(e) /\ e.mode = d.mode /\ e.uses = d.uses
         /\ e.ok = d.ok /\ e.version = d.version /\ e.tables = d.tables
         /\ e.types = d.types /\ e.body = d.body /\ e.rules = d.rules
         /\ e.posted = d.posted
  BY DEF Schema

LEMMA Down2 ==
  ASSUME NEW d, Schema(d), At(2, d)
  PROVE  Lowered(1, d, Down(2, d))
<1> DEFINE names == {"telegram_users"}
           pairs == {<<"telegram_users", "user_role_enum">>}
           made == DropTables(d, names)
           e == [made EXCEPT !.twins = {}]
<1>1. Down(2, d) = e
  BY DEF Down, DropTelegramUsers
<1>2. \A p \in pairs : p[1] \in names
  OBVIOUS
<1>3. /\ TablesAt(2) = TablesAt(1) \cup names /\ TablesAt(1) \cap names = {}
      /\ UsesAt(2) = UsesAt(1) \cup pairs
  BY Added2
<1> HIDE DEF names, pairs
<1>4. 1 \in 0..12
  OBVIOUS
<1>5. Undone(made, d, TablesAt(1), UsesAt(1))
  BY <1>2, <1>3, <1>4, DropAdded
<1> HIDE DEF made
<1>8. /\ Schema(e) /\ e.mode = made.mode /\ e.uses = made.uses
      /\ e.ok = made.ok /\ e.version = made.version /\ e.tables = made.tables
      /\ e.types = made.types /\ e.body = made.body /\ e.rules = made.rules
      /\ e.posted = made.posted
  BY <1>5, TwinsAre DEF Undone
<1> HIDE DEF e
<1>6. TypesAt(1, e.types)
  <2>1. LabelsAt(1, "user_role_enum") = {}
    BY DEF LabelsAt
  <2> QED
    BY <1>5, <1>8, <2>1, Added2 DEF At, Undone, TypesAt, Leavable
<1>7. At(1, e)
  BY <1>5, <1>6, <1>8, BackAt DEF Undone
<1> QED
  BY <1>1, <1>5, <1>7, <1>8 DEF Lowered, Undone

LEMMA Down4 ==
  ASSUME NEW d, Schema(d), At(4, d)
  PROVE  Lowered(3, d, Down(4, d))
<1> DEFINE names == {"merchant_listings"}
           pairs == {}
           e == DropTables(d, names)
<1>1. Down(4, d) = e
  BY DEF Down, DropListings
<1>2. \A p \in pairs : p[1] \in names
  OBVIOUS
<1>3. /\ TablesAt(4) = TablesAt(3) \cup names /\ TablesAt(3) \cap names = {}
      /\ UsesAt(4) = UsesAt(3) \cup pairs
  BY Added4
<1> HIDE DEF names, pairs
<1>4. 3 \in 0..12
  OBVIOUS
<1>5. Undone(e, d, TablesAt(3), UsesAt(3))
  BY <1>2, <1>3, <1>4, DropAdded
<1> HIDE DEF e
<1>6. TypesAt(3, e.types)
  BY <1>5, Added4 DEF At, Undone, TypesAt
<1>7. At(3, e)
  BY <1>5, <1>6, BackAt DEF Undone
<1> QED
  BY <1>1, <1>5, <1>7 DEF Lowered, Undone

LEMMA Down6 ==
  ASSUME NEW d, Schema(d), At(6, d)
  PROVE  Lowered(5, d, Down(6, d))
<1> DEFINE names == {"admin_users"}
           pairs == {<<"admin_users", "user_role_enum">>}
           e == DropTables(d, names)
<1>1. Down(6, d) = e
  BY DEF Down, DropAdminUsers
<1>2. \A p \in pairs : p[1] \in names
  OBVIOUS
<1>3. /\ TablesAt(6) = TablesAt(5) \cup names /\ TablesAt(5) \cap names = {}
      /\ UsesAt(6) = UsesAt(5) \cup pairs
  BY Added6
<1> HIDE DEF names, pairs
<1>4. 5 \in 0..12
  OBVIOUS
<1>5. Undone(e, d, TablesAt(5), UsesAt(5))
  BY <1>2, <1>3, <1>4, DropAdded
<1> HIDE DEF e
<1>6. TypesAt(5, e.types)
  BY <1>5, Added6 DEF At, Undone, TypesAt
<1>7. At(5, e)
  BY <1>5, <1>6, BackAt DEF Undone
<1> QED
  BY <1>1, <1>5, <1>7 DEF Lowered, Undone

LEMMA Down11 ==
  ASSUME NEW d, Schema(d), At(11, d)
  PROVE  Lowered(10, d, Down(11, d))
<1> DEFINE names == {"ticket_comment_attachments"}
           pairs == {}
           e == DropTables(d, names)
<1>1. Down(11, d) = e
  BY DEF Down, DropAttachments
<1>2. \A p \in pairs : p[1] \in names
  OBVIOUS
<1>3. /\ TablesAt(11) = TablesAt(10) \cup names /\ TablesAt(10) \cap names = {}
      /\ UsesAt(11) = UsesAt(10) \cup pairs
  BY Added11
<1> HIDE DEF names, pairs
<1>4. 10 \in 0..12
  OBVIOUS
<1>5. Undone(e, d, TablesAt(10), UsesAt(10))
  BY <1>2, <1>3, <1>4, DropAdded
<1> HIDE DEF e
<1>6. TypesAt(10, e.types)
  BY <1>5, Added11 DEF At, Undone, TypesAt
<1>7. At(10, e)
  BY <1>5, <1>6, BackAt DEF Undone
<1> QED
  BY <1>1, <1>5, <1>7 DEF Lowered, Undone

LEMMA UsesAre ==
  ASSUME NEW d, Schema(d), NEW uses
  PROVE  LET e == [d EXCEPT !.uses = uses] IN
         /\ Schema(e) /\ e.mode = d.mode /\ e.uses = uses
         /\ e.ok = d.ok /\ e.version = d.version /\ e.tables = d.tables
         /\ e.types = d.types /\ e.body = d.body /\ e.rules = d.rules
         /\ e.posted = d.posted /\ e.twins = d.twins
  BY DEF Schema
LEMMA ModeIs ==
  ASSUME NEW d, Schema(d), NEW mode
  PROVE  LET e == [d EXCEPT !.mode = mode] IN
         /\ Schema(e) /\ e.mode = mode /\ e.uses = d.uses
         /\ e.ok = d.ok /\ e.version = d.version /\ e.tables = d.tables
         /\ e.types = d.types /\ e.body = d.body /\ e.rules = d.rules
         /\ e.posted = d.posted /\ e.twins = d.twins
  BY DEF Schema

LEMMA Down5 ==
  ASSUME NEW d, Schema(d), At(5, d)
  PROVE  Lowered(4, d, Down(5, d))
<1> DEFINE names == {"zendesk_runtime_settings"}
           column == <<"our_posts", "post_channel_enum">>
           made == DropTables(d, names)
           e == [made EXCEPT !.uses = made.uses \ {column}, !.mode = "none"]
<1>1. Down(5, d) = e
  BY DEF Down, DropReviewChannel
<1>2. Becomes(made, d, names \subseteq d.tables, d.tables \ names, d.types,
              {use \in d.uses : use[1] \notin names})
  BY DropTablesIs
<1> HIDE DEF made
<1>3. /\ Schema(e) /\ e.mode = "none" /\ e.uses = made.uses \ {column}
      /\ e.ok = made.ok /\ e.version = made.version /\ e.tables = made.tables
      /\ e.types = made.types /\ e.body = made.body /\ e.rules = made.rules
      /\ e.posted = made.posted /\ e.twins = made.twins
  <2>1. Schema(made)
    BY <1>2 DEF Becomes
  <2> QED
    <3> DEFINE unused == [made EXCEPT !.uses = made.uses \ {column}]
    <3>1. e = [unused EXCEPT !.mode = "none"]
      OBVIOUS
    <3>2. /\ Schema(unused) /\ unused.mode = made.mode /\ unused.uses = made.uses \ {column}
          /\ unused.ok = made.ok /\ unused.version = made.version
          /\ unused.tables = made.tables /\ unused.types = made.types
          /\ unused.body = made.body /\ unused.rules = made.rules
          /\ unused.posted = made.posted /\ unused.twins = made.twins
      <4> DEFINE uses == made.uses \ {column}
      <4> HIDE DEF uses
      <4>1. LET f == [made EXCEPT !.uses = uses] IN
            /\ Schema(f) /\ f.mode = made.mode /\ f.uses = uses
            /\ f.ok = made.ok /\ f.version = made.version /\ f.tables = made.tables
            /\ f.types = made.types /\ f.body = made.body /\ f.rules = made.rules
            /\ f.posted = made.posted /\ f.twins = made.twins
        BY <2>1, UsesAre, Zenon
      <4> QED
        BY <4>1, Zenon DEF uses
    <3> HIDE DEF unused, e
    <3>3. LET f == [unused EXCEPT !.mode = "none"] IN
          /\ Schema(f) /\ f.mode = "none" /\ f.uses = unused.uses
          /\ f.ok = unused.ok /\ f.version = unused.version /\ f.tables = unused.tables
          /\ f.types = unused.types /\ f.body = unused.body /\ f.rules = unused.rules
          /\ f.posted = unused.posted /\ f.twins = unused.twins
      BY <3>2, ModeIs, Zenon
    <3> QED
      BY <3>1, <3>2, <3>3, Zenon
<1> HIDE DEF e
<1>4. e.tables = TablesAt(4)
  BY <1>2, <1>3, Added5 DEF At, Becomes
<1>5. e.uses = UsesAt(4)
  <2>1. column \notin UsesAt(4)
    BY DEF UsesAt
  <2>2. \A use \in UsesAt(4) : use[1] \in TablesAt(4)
    BY UsesInTables
  <2>3. d.uses = UsesAt(4) \cup {<<"zendesk_runtime_settings", "post_channel_enum">>, column}
    BY Added5 DEF At
  <2>4. e.uses = {use \in d.uses : use[1] \notin names} \ {column}
    BY <1>2, <1>3 DEF Becomes
  <2>5. \A use \in UsesAt(4) : use[1] \notin names
    BY <2>2, Added5
  <2>6. <<"zendesk_runtime_settings", "post_channel_enum">>[1] \in names
    OBVIOUS
  <2> HIDE DEF names, column
  <2> QED
    BY <2>1, <2>3, <2>4, <2>5, <2>6
<1>6. TypesAt(4, e.types)
  <2>1. LabelsAt(4, "post_channel_enum") = {}
    BY DEF LabelsAt
  <2> QED
    BY <1>2, <1>3, <2>1, Added5 DEF At, Becomes, TypesAt, Leavable
<1>7. At(4, e)
  BY <1>2, <1>3, <1>4, <1>5, <1>6, BackAt DEF Becomes
<1>8. e.version = d.version /\ e.posted = d.posted /\ e.twins = d.twins /\ e.rules = d.rules /\ (e.ok => d.ok)
  BY <1>2, <1>3 DEF Becomes
<1> QED
  BY <1>1, <1>3, <1>7, <1>8 DEF Lowered

LEMMA Down7 ==
  ASSUME NEW d, Schema(d), At(7, d)
  PROVE  Lowered(6, d, Down(7, d))
<1> DEFINE names == {"ticket_reply_attempts"}
           pairs == {<<"ticket_reply_attempts", "post_channel_enum">>,
                     <<"ticket_reply_attempts", "reply_attempt_status_enum">>}
           made == DropTables(d, names)
           e == DropType(made, "reply_attempt_status_enum")
<1>1. Down(7, d) = e
  BY DEF Down, DropAttempts
<1>2. \A p \in pairs : p[1] \in names
  OBVIOUS
<1>3. /\ TablesAt(7) = TablesAt(6) \cup names /\ TablesAt(6) \cap names = {}
      /\ UsesAt(7) = UsesAt(6) \cup pairs
  BY Added7
<1> HIDE DEF names, pairs
<1>4. 6 \in 0..12
  OBVIOUS
<1>5. Undone(made, d, TablesAt(6), UsesAt(6))
  BY <1>2, <1>3, <1>4, DropAdded
<1> HIDE DEF made
<1>6. Dropped(e, made, "reply_attempt_status_enum")
  BY <1>5, TypeDropped, TypeNamesAre DEF Undone
<1> HIDE DEF e
<1>7. TypesAt(6, e.types)
  <2>1. \A t \in TypeNames :
          e.types[t] = IF t = "reply_attempt_status_enum" THEN {} ELSE d.types[t]
    BY <1>5, <1>6 DEF Dropped, Undone
  <2> QED
    BY <2>1, Added7 DEF At, TypesAt, Leavable
<1>8. At(6, e)
  BY <1>5, <1>6, <1>7, BackAt DEF Undone, Dropped
<1> QED
  BY <1>1, <1>5, <1>6, <1>8 DEF Lowered, Undone, Dropped

LEMMA Down8 ==
  ASSUME NEW d, Schema(d), At(8, d)
  PROVE  Lowered(7, d, Down(8, d))
<1> DEFINE status == "llm_playground_ticket_status_enum"
           role == "llm_playground_message_role_enum"
           run == "llm_playground_run_status_enum"
           pairs == {<<"llm_playground_tickets", status>>, <<"llm_playground_messages", role>>,
                     <<"llm_playground_runs", run>>}
           made == DropTables(d, PlaygroundTables)
           runs == CheckFirstDrop(made, run)
           roles == CheckFirstDrop(runs, role)
           e == CheckFirstDrop(roles, status)
<1>1. Down(8, d) = e
  BY DEF Down, DropPlayground
<1>2. \A p \in pairs : p[1] \in PlaygroundTables
  BY DEF PlaygroundTables
<1>3. /\ TablesAt(8) = TablesAt(7) \cup PlaygroundTables
      /\ TablesAt(7) \cap PlaygroundTables = {}
      /\ UsesAt(8) = UsesAt(7) \cup pairs
  BY Added8
<1>4. 7 \in 0..12 /\ status \in TypeNames /\ role \in TypeNames /\ run \in TypeNames
  BY TypeNamesAre
<1> HIDE DEF pairs
<1>5. Undone(made, d, TablesAt(7), UsesAt(7))
  BY <1>2, <1>3, <1>4, DropAdded
<1> HIDE DEF made
<1>6. Dropped(runs, made, run)
  BY <1>4, <1>5, TypeDropped DEF Undone
<1> HIDE DEF runs
<1>7. Dropped(roles, runs, role)
  BY <1>4, <1>6, TypeDropped DEF Dropped
<1> HIDE DEF roles
<1>8. Dropped(e, roles, status)
  BY <1>4, <1>7, TypeDropped DEF Dropped
<1> HIDE DEF e
<1>9. TypesAt(7, e.types)
  <2>1. \A t \in TypeNames :
          e.types[t] = IF t \in {status, role, run} THEN {} ELSE d.types[t]
    <3> HIDE DEF status, role, run
    <3> QED
      BY <1>5, <1>6, <1>7, <1>8 DEF Dropped, Undone
  <2> QED
    BY <2>1, Added8 DEF At, TypesAt, Leavable
<1>10. /\ Schema(e) /\ (e.ok => d.ok) /\ e.tables = TablesAt(7) /\ e.uses = UsesAt(7)
       /\ e.version = d.version /\ e.body = d.body /\ e.rules = d.rules
       /\ e.posted = d.posted /\ e.twins = d.twins /\ e.mode = d.mode
  BY <1>5, <1>6, <1>7, <1>8 DEF Dropped, Undone
<1>11. At(7, e)
  BY <1>9, <1>10, BackAt
<1> QED
  BY <1>1, <1>10, <1>11 DEF Lowered

LEMMA Down9 ==
  ASSUME NEW d, Schema(d), At(9, d)
  PROVE  Lowered(8, d, Down(9, d))
<1> DEFINE names == {"ticket_classification_audits"}
           kept == {rule \in d.rules : ~(rule.kind = "spam_body_pattern"
                                         /\ rule.author = "b4a2f9c1d8e0")}
           made == DropTables(d, names)
           e == [made EXCEPT !.rules = kept]
<1>1. 8 \in 0..12
  OBVIOUS
<1>2. Undone(made, d, TablesAt(8), UsesAt(8))
  <2>1. /\ TablesAt(9) = TablesAt(8) \cup names /\ TablesAt(8) \cap names = {}
        /\ UsesAt(9) = UsesAt(8) \cup {}
    BY Added9
  <2> HIDE DEF names
  <2> QED
    BY <1>1, <2>1, DropAdded
<1>3. Down(9, d) = e
  <2>1. Down(9, d) = [made EXCEPT !.rules =
           {rule \in made.rules : ~(rule.kind = "spam_body_pattern"
                                    /\ rule.author = "b4a2f9c1d8e0")}]
    BY DEF Down, DropAudits
  <2> HIDE DEF made
  <2> QED
    BY <1>2, <2>1 DEF Undone
<1>4. \A rule \in d.rules : rule.author = "admin" => rule \in kept
  OBVIOUS
<1> HIDE DEF made, kept
<1>5. /\ Schema(e) /\ e.rules = kept /\ e.mode = made.mode /\ e.uses = made.uses
      /\ e.ok = made.ok /\ e.version = made.version /\ e.tables = made.tables
      /\ e.types = made.types /\ e.body = made.body /\ e.posted = made.posted /\ e.twins = made.twins
  BY <1>2 DEF Undone, Schema
<1> HIDE DEF e
<1>6. TypesAt(8, e.types)
  BY <1>2, <1>5, Added9 DEF At, Undone, TypesAt
<1>7. At(8, e)
  BY <1>2, <1>5, <1>6, BackAt DEF Undone
<1> QED
  BY <1>2, <1>3, <1>4, <1>5, <1>7 DEF Lowered, Undone

LEMMA Down10 ==
  ASSUME NEW d, Schema(d), At(10, d)
  PROVE  Lowered(9, d, Down(10, d))
<1> DEFINE kept == {rule \in d.rules : rule.author # "c8f14a92d6b1"}
           e == [d EXCEPT !.rules = kept]
<1>1. Down(10, d) = e
  BY DEF Down, DeleteBodyRules
<1>2. \A rule \in d.rules : rule.author = "admin" => rule \in kept
  OBVIOUS
<1> HIDE DEF kept
<1>3. /\ Schema(e) /\ e.rules = kept /\ e.mode = d.mode /\ e.uses = d.uses
      /\ e.ok = d.ok /\ e.version = d.version /\ e.tables = d.tables
      /\ e.types = d.types /\ e.body = d.body /\ e.posted = d.posted /\ e.twins = d.twins
  BY DEF Schema
<1> HIDE DEF e
<1>4. TypesAt(9, e.types)
  BY <1>3, Added10 DEF At, TypesAt
<1>5. At(9, e)
  BY <1>3, <1>4, Added10, BackAt DEF At
<1> QED
  BY <1>1, <1>2, <1>3, <1>5 DEF Lowered

LEMMA Down12 ==
  ASSUME NEW d, Schema(d), At(12, d)
  PROVE  /\ Lowered(11, d, Down(12, d))
         /\ Down(12, d).ok => "OFF" \notin d.posted \cup {d.mode}
         /\ Down(12, d).mode = d.mode
<1> DEFINE there == Require(d, "OFF" \notin d.posted \cup {d.mode})
           types == [d.types EXCEPT !["post_channel_enum"] = Channels]
           e == [there EXCEPT !.types = types]
<1>1. Becomes(there, d, "OFF" \notin d.posted \cup {d.mode}, d.tables, d.types, d.uses)
  BY RequireIs
<1>2. Down(12, d) = e
  <2>1. Down(12, d) = [there EXCEPT !.types = [there.types EXCEPT !["post_channel_enum"] = Channels]]
    BY DEF Down, RemoveOff
  <2> HIDE DEF there
  <2> QED
    BY <1>1, <2>1 DEF Becomes
<1>3. /\ types = [t \in TypeNames |-> types[t]]
      /\ \A t \in TypeNames : types[t] = IF t = "post_channel_enum" THEN Channels ELSE d.types[t]
  BY DEF Schema
<1> HIDE DEF there, types
<1>4. /\ Schema(e) /\ e.types = types /\ e.mode = there.mode /\ e.uses = there.uses
      /\ e.ok = there.ok /\ e.version = there.version /\ e.tables = there.tables
      /\ e.rules = there.rules /\ e.body = there.body /\ e.posted = there.posted /\ e.twins = there.twins
  BY <1>1, <1>3 DEF Becomes, Schema
<1> HIDE DEF e
<1>5. TypesAt(11, e.types)
  BY <1>3, <1>4, Added12 DEF At, TypesAt, Leavable
<1>6. At(11, e)
  BY <1>1, <1>4, <1>5, Added12, BackAt DEF At, Becomes
<1> QED
  BY <1>1, <1>2, <1>4, <1>6 DEF Lowered, Becomes

-----------------------------------------------------------------------------
\* An upgrade goes revision by revision; this is what the first k of them have made of a
\* schema d that the image knows.  A schema is Clear if nothing is in the way.
Clear(d) ==
    /\ d.version < 2 => d.types["user_role_enum"] = {}
    /\ d.version < 5 => d.types["post_channel_enum"] = {}
    /\ d.version < 3 => d.posted = {} /\ d.twins = {}
    /\ d.version < 5 => d.posted \subseteq Channels
Known(d) == Schema(d) /\ d.version \in 0..12 /\ At(d.version, d)
Stage(k, image, d, e) ==
    /\ Known(e)
    /\ e.posted = d.posted /\ e.twins = d.twins /\ e.mode = d.mode
    /\ d.rules \subseteq e.rules
    /\ e.ok => d.ok
    /\ d.ok /\ Clear(d) => e.ok /\ Clear(e)
    /\ e.version = IF d.version >= k THEN d.version ELSE IF k <= image THEN k ELSE image

LEMMA UpRaises ==
  ASSUME NEW r \in 1..12, NEW d, Schema(d), At(r - 1, d)
  PROVE  Raised(r, d, Up(r, d))
<1>1. CASE r = 1
  <2>1. r - 1 = 0
    BY <1>1
  <2>2. At(0, d)
    BY <2>1, Zenon
  <2> QED
    BY <1>1, <2>2, Up1, Zenon
<1>2. CASE r = 2
  <2>1. r - 1 = 1
    BY <1>2
  <2>2. At(1, d)
    BY <2>1, Zenon
  <2> QED
    BY <1>2, <2>2, Up2, Zenon
<1>3. CASE r = 3
  <2>1. r - 1 = 2
    BY <1>3
  <2>2. At(2, d)
    BY <2>1, Zenon
  <2> QED
    BY <1>3, <2>2, Up3, Zenon
<1>4. CASE r = 4
  <2>1. r - 1 = 3
    BY <1>4
  <2>2. At(3, d)
    BY <2>1, Zenon
  <2> QED
    BY <1>4, <2>2, Up4, Zenon
<1>5. CASE r = 5
  <2>1. r - 1 = 4
    BY <1>5
  <2>2. At(4, d)
    BY <2>1, Zenon
  <2> QED
    BY <1>5, <2>2, Up5, Zenon
<1>6. CASE r = 6
  <2>1. r - 1 = 5
    BY <1>6
  <2>2. At(5, d)
    BY <2>1, Zenon
  <2> QED
    BY <1>6, <2>2, Up6, Zenon
<1>7. CASE r = 7
  <2>1. r - 1 = 6
    BY <1>7
  <2>2. At(6, d)
    BY <2>1, Zenon
  <2> QED
    BY <1>7, <2>2, Up7, Zenon
<1>8. CASE r = 8
  <2>1. r - 1 = 7
    BY <1>8
  <2>2. At(7, d)
    BY <2>1, Zenon
  <2> QED
    BY <1>8, <2>2, Up8, Zenon
<1>9. CASE r = 9
  <2>1. r - 1 = 8
    BY <1>9
  <2>2. At(8, d)
    BY <2>1, Zenon
  <2> QED
    BY <1>9, <2>2, Up9, Zenon
<1>10. CASE r = 10
  <2>1. r - 1 = 9
    BY <1>10
  <2>2. At(9, d)
    BY <2>1, Zenon
  <2> QED
    BY <1>10, <2>2, Up10, Zenon
<1>11. CASE r = 11
  <2>1. r - 1 = 10
    BY <1>11
  <2>2. At(10, d)
    BY <2>1, Zenon
  <2> QED
    BY <1>11, <2>2, Up11, Zenon
<1>12. CASE r = 12
  <2>1. r - 1 = 11
    BY <1>12
  <2>2. At(11, d)
    BY <2>1, Zenon
  <2> QED
    BY <1>12, <2>2, Up12, Zenon
<1>13. \/ r = 1 \/ r = 2 \/ r = 3 \/ r = 4 \/ r = 5 \/ r = 6
       \/ r = 7 \/ r = 8 \/ r = 9 \/ r = 10 \/ r = 11 \/ r = 12
  OBVIOUS
<1> QED
  BY <1>1, <1>2, <1>3, <1>4, <1>5, <1>6, <1>7, <1>8, <1>9, <1>10, <1>11, <1>12, <1>13, Zenon

LEMMA VersionIs ==
  ASSUME NEW d, Schema(d), NEW version
  PROVE  LET e == [d EXCEPT !.version = version] IN
         /\ Schema(e) /\ e.version = version /\ e.mode = d.mode /\ e.uses = d.uses
         /\ e.ok = d.ok /\ e.tables = d.tables
         /\ e.types = d.types /\ e.body = d.body /\ e.rules = d.rules
         /\ e.posted = d.posted /\ e.twins = d.twins
  BY DEF Schema

LEMMA NoLabelsYet ==
  ASSUME NEW v \in 0..12
  PROVE  /\ v < 2 => LabelsAt(v, "user_role_enum") = {}
         /\ v < 5 => LabelsAt(v, "post_channel_enum") = {}
  BY DEF LabelsAt

LEMMA RaiseSkips ==
  ASSUME NEW k, NEW image, NEW e, ~(e.version = k - 1 /\ k <= image)
  PROVE  Raise(k, image, e) = e
  BY DEF Raise
LEMMA RaiseIs ==
  ASSUME NEW k, NEW image, NEW e, e.version = k - 1, k <= image
  PROVE  Raise(k, image, e) = [Up(k, e) EXCEPT !.version = k]
  BY DEF Raise

LEMMA RaiseOnce ==
  ASSUME NEW k \in 1..12, NEW image \in 0..12, NEW d, d.version \in 0..image,
         NEW e, Stage(k - 1, image, d, e)
  PROVE  Stage(k, image, d, Raise(k, image, e))
<1>1. Known(e) /\ e.version \in 0..12
  BY DEF Stage, Known
<1>2. CASE ~(e.version = k - 1 /\ k <= image)
  <2>1. Raise(k, image, e) = e
    BY <1>2, RaiseSkips
  <2>2. e.version = IF d.version >= k THEN d.version ELSE IF k <= image THEN k ELSE image
    BY <1>1, <1>2 DEF Stage
  <2> QED
    BY <2>1, <2>2 DEF Stage
<1>3. CASE e.version = k - 1 /\ k <= image
  <2> DEFINE up == Up(k, e)
             f == [up EXCEPT !.version = k]
  <2>1. Raise(k, image, e) = f
    BY <1>3, RaiseIs
  <2>2. Schema(e) /\ At(k - 1, e)
    BY <1>1, <1>3 DEF Known
  <2>3. Raised(k, e, up)
    BY <2>2, UpRaises
  <2> HIDE DEF up
  <2>4. /\ Schema(f) /\ f.version = k /\ f.mode = up.mode /\ f.uses = up.uses
        /\ f.ok = up.ok /\ f.tables = up.tables /\ f.types = up.types /\ f.body = up.body
        /\ f.rules = up.rules /\ f.posted = up.posted /\ f.twins = up.twins
    <3>1. Schema(up)
      BY <2>3 DEF Raised
    <3> QED
      BY <3>1, VersionIs
  <2> HIDE DEF f
  <2>5. At(k, f)
    BY <2>3, <2>4, Zenon DEF Raised, At
  <2>6. Known(f)
    BY <2>4, <2>5 DEF Known
  <2>7. f.posted = d.posted /\ f.twins = d.twins /\ f.mode = d.mode /\ d.rules \subseteq f.rules
    BY <2>3, <2>4 DEF Stage, Raised
  <2>8. f.ok => d.ok
    BY <2>3, <2>4 DEF Stage, Raised
  <2>9. ASSUME d.ok, Clear(d) PROVE f.ok /\ Clear(f)
    <3>1. e.ok /\ Clear(e)
      BY <2>9 DEF Stage
    <3>2. Ready(k, e)
      BY <1>3, <3>1 DEF Ready, Clear
    <3>3. f.ok
      BY <2>3, <2>4, <3>1, <3>2 DEF Raised
    <3>4. /\ k < 2 => f.types["user_role_enum"] = e.types["user_role_enum"]
          /\ k < 5 => f.types["post_channel_enum"] = e.types["post_channel_enum"]
      BY <2>3, <2>4, NoLabelsYet, TypeNamesAre DEF Raised
    <3>5. f.posted = e.posted /\ f.twins = e.twins
      BY <2>3, <2>4 DEF Raised
    <3> QED
      BY <1>3, <2>4, <3>1, <3>3, <3>4, <3>5 DEF Clear
  <2>10. f.version = IF d.version >= k THEN d.version ELSE IF k <= image THEN k ELSE image
    BY <1>3, <2>4 DEF Stage
  <2> QED
    BY <2>1, <2>6, <2>7, <2>8, <2>9, <2>10 DEF Stage
<1> QED
  BY <1>2, <1>3

LEMMA RaiseThrice ==
  ASSUME NEW k \in 1..10, NEW image \in 0..12, NEW d, d.version \in 0..image,
         NEW e, Stage(k - 1, image, d, e)
  PROVE  Stage(k + 2, image, d, RaiseThree(k, image, e))
<1> DEFINE e1 == Raise(k, image, e)
           e2 == Raise(k + 1, image, e1)
           e3 == Raise(k + 2, image, e2)
<1>1. /\ k \in 1..12 /\ k + 1 \in 1..12 /\ k + 2 \in 1..12
      /\ (k + 1) - 1 = k /\ (k + 2) - 1 = k + 1
  OBVIOUS
<1>2. RaiseThree(k, image, e) = e3
  BY DEF RaiseThree
<1> HIDE DEF e1, e2, e3
<1>3. Stage(k, image, d, e1)
  BY <1>1, RaiseOnce DEF e1
<1>4. Stage(k + 1, image, d, e2)
  <2>1. Stage((k + 1) - 1, image, d, e1)
    BY <1>1, <1>3, Zenon
  <2> QED
    BY <1>1, <2>1, RaiseOnce DEF e2
<1>5. Stage(k + 2, image, d, e3)
  <2>1. Stage((k + 2) - 1, image, d, e2)
    BY <1>1, <1>4, Zenon
  <2> QED
    BY <1>1, <2>1, RaiseOnce DEF e3
<1> QED
  BY <1>2, <1>5

\* "alembic upgrade head" of an image that knows the revision.
LEMMA UpgradeIs ==
  ASSUME NEW image \in 0..12, NEW d, Known(d), d.version \in 0..image
  PROVE  /\ Stage(12, image, d, Upgrade(image, d))
         /\ Upgrade(image, d).version = image
<1> DEFINE d1 == RaiseThree(1, image, d)    d2 == RaiseThree(4, image, d1)
           d3 == RaiseThree(7, image, d2)   d4 == RaiseThree(10, image, d3)
<1>1. Upgrade(image, d) = d4
  BY DEF Upgrade
<1>2. Stage(0, image, d, d)
  BY DEF Stage, Known
<1>3. ASSUME NEW k \in {1, 4, 7, 10}, NEW j \in 0..12, NEW m \in 0..12, NEW e,
             j = k - 1, m = k + 2, Stage(j, image, d, e)
      PROVE  Stage(m, image, d, RaiseThree(k, image, e))
  <2>1. k \in 1..10
    OBVIOUS
  <2>2. Stage(k - 1, image, d, e)
    BY <1>3, Zenon
  <2>3. Stage(k + 2, image, d, RaiseThree(k, image, e))
    BY <2>1, <2>2, RaiseThrice
  <2> QED
    BY <1>3, <2>3, Zenon
<1> HIDE DEF d1, d2, d3, d4
<1>4. Stage(3, image, d, d1)
  BY <1>2, <1>3 DEF d1
<1>5. Stage(6, image, d, d2)
  BY <1>3, <1>4 DEF d2
<1>6. Stage(9, image, d, d3)
  BY <1>3, <1>5 DEF d3
<1>7. Stage(12, image, d, d4)
  BY <1>3, <1>6 DEF d4
<1>8. d4.version = image
  BY <1>7 DEF Stage
<1> QED
  BY <1>1, <1>7, <1>8

-----------------------------------------------------------------------------
\* What makes the properties inductive: the schema is that of the revision, but for the
\* types that were left behind, and only a database at the head knows of "OFF".
Inv ==
    /\ Known(db)
    /\ db.ok
    /\ edits \in Nat
    /\ "OFF" \in db.posted \cup {db.mode} => db.version = 12

LEMMA EmptyKnown == Known(Empty) /\ Empty.version = 0
<1>1. /\ Schema(Empty) /\ Empty.version = 0 /\ Empty.tables = {} /\ Empty.uses = {}
      /\ Empty.body = FALSE
      /\ \A t \in TypeNames : Empty.types[t] = {}
  BY DEF Empty, Schema
<1>2. TablesAt(0) = {} /\ UsesAt(0) = {}
  BY DEF TablesAt, UsesAt
<1>3. \A t \in TypeNames : LabelsAt(0, t) = {}
  BY DEF LabelsAt, TypeNames
<1>4. Empty.body = (0 >= 3)
  <2>1. FALSE = (0 >= 3)
    OBVIOUS
  <2> QED
    BY <1>1, <2>1, Zenon
<1>5. At(0, Empty)
  BY <1>1, <1>2, <1>3, <1>4, Zenon DEF At
<1> QED
  BY <1>1, <1>5 DEF Known

LEMMA InvInit == Init => Inv
<1> SUFFICES ASSUME Init PROVE Inv
  OBVIOUS
<1>1. db = Empty /\ edits = 0
  BY DEF Init
<1>2. Empty.ok /\ Empty.posted = {} /\ Empty.mode = "none"
  BY DEF Empty
<1> QED
  BY <1>1, <1>2, EmptyKnown DEF Inv

LEMMA RulesAre ==
  ASSUME NEW d, Schema(d), NEW rules
  PROVE  LET e == [d EXCEPT !.rules = rules] IN
         /\ Schema(e) /\ e.rules = rules /\ e.mode = d.mode /\ e.uses = d.uses
         /\ e.ok = d.ok /\ e.version = d.version /\ e.tables = d.tables
         /\ e.types = d.types /\ e.body = d.body /\ e.posted = d.posted /\ e.twins = d.twins
  BY DEF Schema

LEMMA PostedIs ==
  ASSUME NEW d, Schema(d), NEW posted
  PROVE  LET e == [d EXCEPT !.posted = posted] IN
         /\ Schema(e) /\ e.posted = posted /\ e.mode = d.mode /\ e.uses = d.uses
         /\ e.ok = d.ok /\ e.version = d.version /\ e.tables = d.tables
         /\ e.types = d.types /\ e.body = d.body /\ e.rules = d.rules
  BY DEF Schema

LEMMA DownLowers ==
  ASSUME NEW r \in 1..12, NEW d, Schema(d), At(r, d), Down(r, d).ok
  PROVE  /\ Lowered(r - 1, d, Down(r, d))
         /\ r = 12 => "OFF" \notin d.posted \cup {d.mode}
<1>1. r # 1
  <2> SUFFICES ASSUME r = 1 PROVE FALSE
    OBVIOUS
  <2>1. Down(1, d) = Require(d, FALSE)
    BY DEF Down, DropInitial
  <2>2. FALSE \in BOOLEAN
    OBVIOUS
  <2>3. ~Require(d, FALSE).ok
    BY DEF Require, Schema
  <2> QED
    BY <2>1, <2>3
<1>2. ASSUME r = 2 PROVE Lowered(r - 1, d, Down(r, d))
  <2>1. At(2, d) /\ r - 1 = 1
    BY <1>2
  <2>2. Lowered(1, d, Down(2, d))
    BY <2>1, Down2
  <2> QED
    BY <1>2, <2>1, <2>2, Zenon
<1>3. r # 3
  <2> SUFFICES ASSUME r = 3 PROVE FALSE
    OBVIOUS
  <2>1. Down(3, d) = Require(d, FALSE)
    BY DEF Down, DropLLMTables
  <2>2. FALSE \in BOOLEAN
    OBVIOUS
  <2>3. ~Require(d, FALSE).ok
    BY DEF Require, Schema
  <2> QED
    BY <2>1, <2>3
<1>4. ASSUME r = 4 PROVE Lowered(r - 1, d, Down(r, d))
  <2>1. At(4, d) /\ r - 1 = 3
    BY <1>4
  <2>2. Lowered(3, d, Down(4, d))
    BY <2>1, Down4
  <2> QED
    BY <1>4, <2>1, <2>2, Zenon
<1>5. ASSUME r = 5 PROVE Lowered(r - 1, d, Down(r, d))
  <2>1. At(5, d) /\ r - 1 = 4
    BY <1>5
  <2>2. Lowered(4, d, Down(5, d))
    BY <2>1, Down5
  <2> QED
    BY <1>5, <2>1, <2>2, Zenon
<1>6. ASSUME r = 6 PROVE Lowered(r - 1, d, Down(r, d))
  <2>1. At(6, d) /\ r - 1 = 5
    BY <1>6
  <2>2. Lowered(5, d, Down(6, d))
    BY <2>1, Down6
  <2> QED
    BY <1>6, <2>1, <2>2, Zenon
<1>7. ASSUME r = 7 PROVE Lowered(r - 1, d, Down(r, d))
  <2>1. At(7, d) /\ r - 1 = 6
    BY <1>7
  <2>2. Lowered(6, d, Down(7, d))
    BY <2>1, Down7
  <2> QED
    BY <1>7, <2>1, <2>2, Zenon
<1>8. ASSUME r = 8 PROVE Lowered(r - 1, d, Down(r, d))
  <2>1. At(8, d) /\ r - 1 = 7
    BY <1>8
  <2>2. Lowered(7, d, Down(8, d))
    BY <2>1, Down8
  <2> QED
    BY <1>8, <2>1, <2>2, Zenon
<1>9. ASSUME r = 9 PROVE Lowered(r - 1, d, Down(r, d))
  <2>1. At(9, d) /\ r - 1 = 8
    BY <1>9
  <2>2. Lowered(8, d, Down(9, d))
    BY <2>1, Down9
  <2> QED
    BY <1>9, <2>1, <2>2, Zenon
<1>10. ASSUME r = 10 PROVE Lowered(r - 1, d, Down(r, d))
  <2>1. At(10, d) /\ r - 1 = 9
    BY <1>10
  <2>2. Lowered(9, d, Down(10, d))
    BY <2>1, Down10
  <2> QED
    BY <1>10, <2>1, <2>2, Zenon
<1>11. ASSUME r = 11 PROVE Lowered(r - 1, d, Down(r, d))
  <2>1. At(11, d) /\ r - 1 = 10
    BY <1>11
  <2>2. Lowered(10, d, Down(11, d))
    BY <2>1, Down11
  <2> QED
    BY <1>11, <2>1, <2>2, Zenon
<1>12. ASSUME r = 12 PROVE Lowered(r - 1, d, Down(r, d))
  <2>1. At(12, d) /\ r - 1 = 11
    BY <1>12
  <2>2. Lowered(11, d, Down(12, d))
    BY <2>1, Down12
  <2> QED
    BY <1>12, <2>1, <2>2, Zenon
<1>13. ASSUME r = 12 PROVE "OFF" \notin d.posted \cup {d.mode}
  <2>1. At(12, d) /\ Down(12, d).ok
    BY <1>13
  <2> QED
    BY <2>1, Down12
<1>14. \/ r = 1 \/ r = 2 \/ r = 3 \/ r = 4 \/ r = 5 \/ r = 6
       \/ r = 7 \/ r = 8 \/ r = 9 \/ r = 10 \/ r = 11 \/ r = 12
  OBVIOUS
<1> QED
  BY <1>1, <1>2, <1>3, <1>4, <1>5, <1>6, <1>7, <1>8, <1>9, <1>10, <1>11, <1>12, <1>13, <1>14, Zenon

LEMMA DownSchema ==
  ASSUME NEW r \in 1..12, NEW d, Schema(d), At(r, d)
  PROVE  Schema(Down(r, d))
<1>1. ASSUME r = 1 \/ r = 3 PROVE Schema(Down(r, d))
  <2>1. Down(r, d) = Require(d, FALSE)
    <3>1. Down(1, d) = Require(d, FALSE) /\ Down(3, d) = Require(d, FALSE)
      BY DEF Down, DropInitial, DropLLMTables
    <3> QED
      BY <1>1, <3>1, Zenon
  <2>2. FALSE \in BOOLEAN
    OBVIOUS
  <2>3. Becomes(Require(d, FALSE), d, FALSE, d.tables, d.types, d.uses)
    BY <2>2, RequireIs
  <2> QED
    BY <2>1, <2>3 DEF Becomes
<1>2. ASSUME r # 1, r # 3 PROVE Schema(Down(r, d))
  BY <1>2, Down2, Down4, Down5, Down6, Down7, Down8, Down9, Down10, Down11, Down12 DEF Lowered
<1> QED
  BY <1>1, <1>2

\* Nothing but an upgrade or a downgrade touches the schema.
LEMMA Untouched ==
  ASSUME Known(db), NEW e, Schema(e), e.version = db.version, e.tables = db.tables,
         e.types = db.types, e.uses = db.uses, e.body = db.body
  PROVE  Known(e)
  BY Zenon DEF Known, At

LEMMA InvOfPosts ==
  ASSUME Inv, NEW posted, NEW mode, db' = [db EXCEPT !.posted = posted, !.mode = mode],
         edits' = edits, "OFF" \in posted \cup {mode} => db.version = 12
  PROVE  Inv'
<1> DEFINE recorded == [db EXCEPT !.posted = posted]
           e == [recorded EXCEPT !.mode = mode]
<1>0. db' = e
  OBVIOUS
<1>1. Known(db) /\ Schema(db) /\ db.ok /\ edits \in Nat
  BY DEF Inv, Known
<1>2. /\ Schema(e) /\ e.posted = posted /\ e.mode = mode /\ e.uses = db.uses
      /\ e.ok = db.ok /\ e.version = db.version /\ e.tables = db.tables
      /\ e.types = db.types /\ e.body = db.body /\ e.rules = db.rules
  <2>1. /\ Schema(recorded) /\ recorded.posted = posted /\ recorded.uses = db.uses
        /\ recorded.ok = db.ok /\ recorded.version = db.version
        /\ recorded.tables = db.tables /\ recorded.types = db.types
        /\ recorded.body = db.body /\ recorded.rules = db.rules
    BY <1>1, PostedIs
  <2> HIDE DEF recorded
  <2> QED
    BY <2>1, ModeIs
<1> HIDE DEF e
<1>3. Known(e)
  BY <1>1, <1>2, Untouched
<1> QED
  BY <1>0, <1>1, <1>2, <1>3 DEF Inv
LEMMA InvOfMode ==
  ASSUME Inv, NEW mode, db' = [db EXCEPT !.mode = mode],
         edits' = edits, "OFF" \in db.posted \cup {mode} => db.version = 12
  PROVE  Inv'
<1> DEFINE e == [db EXCEPT !.mode = mode]
<1>1. Known(db) /\ Schema(db) /\ db.ok /\ edits \in Nat
  BY DEF Inv, Known
<1>2. /\ Schema(e) /\ e.posted = db.posted /\ e.twins = db.twins /\ e.mode = mode /\ e.uses = db.uses
      /\ e.ok = db.ok /\ e.version = db.version /\ e.tables = db.tables
      /\ e.types = db.types /\ e.body = db.body /\ e.rules = db.rules
  <2>1. Schema(db)
    BY <1>1
  <2> QED
    BY <2>1, ModeIs
<1> HIDE DEF e
<1>3. Known(e)
  BY <1>1, <1>2, Untouched
<1>4. db' = e
  BY DEF e
<1> QED
  BY <1>1, <1>2, <1>3, <1>4 DEF Inv

LEMMA InvNext == Inv /\ [Next]_vars => Inv'
<1> SUFFICES ASSUME Inv, [Next]_vars PROVE Inv'
  OBVIOUS
<1> USE MigrationsAssumption DEF LastRevision
<1>0. /\ Known(db) /\ db.ok /\ edits \in Nat /\ Schema(db) /\ db.version \in 0..12
      /\ "OFF" \in db.posted \cup {db.mode} => db.version = 12
  BY DEF Inv, Known
<1>1. ASSUME NEW image \in Images, Migrate(image) PROVE Inv'
  <2>1. image \in 0..12 /\ db.version \in 0..image
    <3>1. db.version \in 0..12
      BY <1>0
    <3>2. db.version <= image
      BY <1>1, Zenon DEF Migrate, Knows
    <3>3. image \in 0..12
      OBVIOUS
    <3> QED
      BY <3>1, <3>2, <3>3
  <2> DEFINE e == Upgrade(image, db)
  <2>2. Stage(12, image, db, e) /\ e.version = image
    BY <1>0, <2>1, UpgradeIs
  <2>3. db' = e /\ e.ok /\ edits' = edits
    BY <1>1 DEF Migrate
  <2> HIDE DEF e
  <2>4. Known(e) /\ e.posted = db.posted /\ e.twins = db.twins /\ e.mode = db.mode
    BY <2>2 DEF Stage
  <2>5. "OFF" \in e.posted \cup {e.mode} => e.version = 12
    BY <1>0, <2>1, <2>2, <2>4
  <2> QED
    BY <1>0, <2>3, <2>4, <2>5 DEF Inv
<1>2. ASSUME NEW image \in Images, DowngradeOne(image) PROVE Inv'
  <2> DEFINE r == db.version
             lower == Down(r, db)
             e == [lower EXCEPT !.version = r - 1]
  <2>1. r \in 1..12 /\ Downgrade(db).ok /\ db' = Downgrade(db) /\ edits' = edits
    BY <1>0, <1>2 DEF DowngradeOne
  <2>2. Downgrade(db) = [lower EXCEPT !.version = lower.version - 1]
    BY DEF Downgrade
  <2>3. Schema(lower) => Downgrade(db).ok = lower.ok
    <3> HIDE DEF lower
    <3> QED
      BY <2>2, VersionIs
  <2>4. lower.ok /\ Schema(lower)
    <3>1. Schema(lower)
      BY <1>0, <2>1, DownSchema DEF Known
    <3> QED
      BY <2>1, <2>3, <3>1
  <2>5. /\ Lowered(r - 1, db, lower)
        /\ r = 12 => "OFF" \notin db.posted \cup {db.mode}
    BY <1>0, <2>1, <2>4, DownLowers DEF Known
  <2> HIDE DEF lower
  <2>6. lower.version = r
    BY <2>5 DEF Lowered
  <2> HIDE DEF r
  <2>7. Downgrade(db) = e
    BY <2>2, <2>6
  <2>8. /\ Schema(e) /\ e.version = r - 1 /\ e.mode = lower.mode /\ e.uses = lower.uses
        /\ e.ok = lower.ok /\ e.tables = lower.tables /\ e.types = lower.types
        /\ e.body = lower.body /\ e.posted = lower.posted /\ e.twins = lower.twins
    BY <2>4, VersionIs
  <2> HIDE DEF e
  <2>9. At(r - 1, e)
    BY <2>5, <2>8, Zenon DEF Lowered, At
  <2>10. Known(e)
    BY <2>1, <2>8, <2>9 DEF Known
  <2>11. "OFF" \notin e.posted \cup {e.mode}
    BY <1>0, <2>1, <2>5, <2>8 DEF Lowered, r
  <2> QED
    BY <1>0, <2>1, <2>4, <2>7, <2>8, <2>10, <2>11 DEF Inv
<1>3. ASSUME ProdUp \/ Interrupted \/ UNCHANGED vars PROVE Inv'
  BY <1>0, <1>3 DEF ProdUp, Interrupted, vars, Inv
<1>4. ASSUME Answer PROVE Inv'
  <2>1. PICK channel \in NextChannel :
          /\ db' = [db EXCEPT !.posted = db.posted \cup {channel},
                              !.mode = IF app >= 5 THEN channel ELSE db.mode]
          /\ edits' = edits
    BY <1>4 DEF Answer
  <2> DEFINE mode == IF app >= 5 THEN channel ELSE db.mode
             posted == db.posted \cup {channel}
  <2>2. "OFF" \in posted \cup {mode} => "OFF" \in db.posted \cup {db.mode}
    BY DEF NextChannel
  <2>3. db' = [db EXCEPT !.posted = posted, !.mode = mode] /\ edits' = edits
    BY <2>1
  <2> HIDE DEF posted, mode
  <2> QED
    BY <1>0, <2>2, <2>3, InvOfPosts
<1>9. ASSUME AddUserTwice PROVE Inv'
  <2> DEFINE e == [db EXCEPT !.twins = {"id"}]
  <2>1. db' = e /\ edits' = edits
    BY <1>9 DEF AddUserTwice
  <2>2. /\ Schema(e) /\ e.mode = db.mode /\ e.uses = db.uses
        /\ e.ok = db.ok /\ e.version = db.version /\ e.tables = db.tables
        /\ e.types = db.types /\ e.body = db.body /\ e.rules = db.rules
        /\ e.posted = db.posted
    BY <1>0, TwinsAre
  <2> HIDE DEF e
  <2>3. Known(e)
    BY <1>0, <2>2, Untouched
  <2> QED
    BY <1>0, <2>1, <2>2, <2>3 DEF Inv
<1>5. ASSUME NEW channel \in {"INTERNAL", "OFF"}, SetMode(channel) PROVE Inv'
  <2>1. /\ db' = [db EXCEPT !.mode = channel] /\ edits' = edits
        /\ db.version >= 5 /\ channel \in db.types["post_channel_enum"]
    BY <1>5 DEF SetMode, Serving
  <2>2. channel = "OFF" => db.version = 12
    <3>1. /\ LabelsAt(db.version, "post_channel_enum") # {}
          /\ db.version < 12 => "OFF" \notin LabelsAt(db.version, "post_channel_enum")
      BY <1>0, <2>1 DEF LabelsAt, Channels
    <3>2. db.types["post_channel_enum"] = LabelsAt(db.version, "post_channel_enum")
      BY <1>0, <3>1, TypeNamesAre DEF Known, At
    <3> QED
      BY <1>0, <2>1, <3>1, <3>2
  <2>3. PICK mode : mode = channel
    OBVIOUS
  <2>4. db' = [db EXCEPT !.mode = mode]
    BY <2>1, <2>3, Zenon
  <2>5. "OFF" \in db.posted \cup {mode} => db.version = 12
    BY <1>0, <2>2, <2>3
  <2> QED
    BY <2>1, <2>4, <2>5, InvOfMode
<1>6. ASSUME NEW rules, db' = [db EXCEPT !.rules = rules], edits' = edits + 1 PROVE Inv'
  <2> DEFINE e == [db EXCEPT !.rules = rules]
  <2>1. /\ Schema(e) /\ e.posted = db.posted /\ e.twins = db.twins /\ e.mode = db.mode /\ e.ok = db.ok
        /\ e.version = db.version /\ e.tables = db.tables
        /\ e.types = db.types /\ e.uses = db.uses /\ e.body = db.body
    BY <1>0, RulesAre
  <2> HIDE DEF e
  <2>2. Known(e)
    BY <1>0, <2>1, Untouched
  <2>3. db' = e
    BY <1>6 DEF e
  <2>4. edits' \in Nat
    BY <1>0, <1>6
  <2> QED
    BY <1>0, <2>1, <2>2, <2>3, <2>4 DEF Inv
<1>7. ASSUME CreateRule("spam_body_pattern") PROVE Inv'
  BY <1>6, <1>7 DEF CreateRule
<1>8. ASSUME NEW rule \in db.rules, DeactivateRule(rule) PROVE Inv'
  BY <1>6, <1>8 DEF DeactivateRule
<1> QED
  BY <1>1, <1>2, <1>3, <1>4, <1>5, <1>7, <1>8, <1>9 DEF Next

\* The schema of the database is that of its revision, except for types that a downgrade
\* has left, no transaction is kept that failed, and "OFF" is only known at the head.
THEOREM SchemaInvariant == Spec => []Inv
  BY InvInit, InvNext, PTL DEF Spec

\* UpgradesFailOnlyAsKnown in every state: an image that knows the revision upgrades from
\* it, unless a left type, a row of our_posts or two rows of telegram_users with one
\* telegram_id are in the way.
THEOREM UpgradesFailAsKnown == Spec => []UpgradesFailOnlyAsKnown
<1>1. Inv => UpgradesFailOnlyAsKnown
  <2> SUFFICES ASSUME Inv, NEW image \in Images, image >= db.version, ~Upgrade(image, db).ok
               PROVE  \/ LeftType("user_role_enum", 2)
                      \/ LeftType("post_channel_enum", 5)
                      \/ db.version < 3 /\ (db.posted # {} \/ db.twins # {})
                      \/ db.version < 5 /\ ~(db.posted \subseteq Channels)
    BY DEF UpgradesFailOnlyAsKnown
  <2>1. Known(db) /\ db.ok
    BY DEF Inv
  <2>2. image \in 0..12 /\ db.version \in 0..image
    BY <2>1, MigrationsAssumption DEF Known, LastRevision
  <2>3. Stage(12, image, db, Upgrade(image, db))
    BY <2>1, <2>2, UpgradeIs
  <2>4. ~Clear(db)
    BY <2>1, <2>3 DEF Stage
  <2> QED
    BY <2>4 DEF Clear, LeftType
<1> QED
  BY <1>1, SchemaInvariant, PTL

-----------------------------------------------------------------------------
\* The columns of an enum type at a revision, each with the labels of its type.
LEMMA UsesLabelled ==
  ASSUME NEW v \in 0..12
  PROVE  \A use \in UsesAt(v) : use[2] \in TypeNames /\ LabelsAt(v, use[2]) # {}
<1> TAKE use \in UsesAt(v)
<1>1. \/ v >= 2 /\ use[2] = "user_role_enum"
      \/ v >= 3 /\ use[2] = "llm_prompt_key_enum"
      \/ v >= 3 /\ use[2] = "llm_settings_key_enum"
      \/ v >= 5 /\ use[2] = "post_channel_enum"
      \/ v >= 7 /\ use[2] = "reply_attempt_status_enum"
      \/ v >= 8 /\ use[2] = "llm_playground_ticket_status_enum"
      \/ v >= 8 /\ use[2] = "llm_playground_message_role_enum"
      \/ v >= 8 /\ use[2] = "llm_playground_run_status_enum"
  BY DEF UsesAt
<1> QED
  BY <1>1, TypeNamesAre DEF LabelsAt, Roles, Channels, AttemptStatuses, TicketStatuses,
                           MessageRoles, RunStatuses

EnumsAt(v) == {<<use[1], use[2], LabelsAt(v, use[2])>> : use \in UsesAt(v)}
LEMMA EnumsOfRevision ==
  ASSUME NEW v \in 0..12, NEW d, At(v, d)
  PROVE  EnumsOf(d) = EnumsAt(v)
<1>1. d.uses = UsesAt(v)
  BY DEF At
<1>2. \A use \in UsesAt(v) : d.types[use[2]] = LabelsAt(v, use[2])
  BY UsesLabelled DEF At
<1> QED
  BY <1>1, <1>2 DEF EnumsOf, EnumsAt

LEMMA ModelsAtHead == TablesAt(12) = ModelTables /\ EnumsAt(12) = ModelEnums
<1>1. TablesAt(12) = ModelTables
  BY DEF TablesAt, ModelTables, TicketModels, AuditModels, AttemptModels, PlaygroundModels,
         RuleModels, LLMModels, ListingModels, UserModels, ZendeskModels, PlaygroundTables
<1>2. UsesAt(12) =
        {<<"telegram_users", "user_role_enum">>, <<"llm_prompts", "llm_prompt_key_enum">>,
         <<"llm_runtime_settings", "llm_settings_key_enum">>,
         <<"zendesk_runtime_settings", "post_channel_enum">>,
         <<"our_posts", "post_channel_enum">>, <<"admin_users", "user_role_enum">>,
         <<"ticket_reply_attempts", "post_channel_enum">>,
         <<"ticket_reply_attempts", "reply_attempt_status_enum">>,
         <<"llm_playground_tickets", "llm_playground_ticket_status_enum">>,
         <<"llm_playground_messages", "llm_playground_message_role_enum">>,
         <<"llm_playground_runs", "llm_playground_run_status_enum">>}
  BY DEF UsesAt
<1>3. /\ LabelsAt(12, "user_role_enum") = Roles
      /\ LabelsAt(12, "llm_prompt_key_enum") =
            {"INITIAL_REPLY", "FOLLOWUP_REPLY", "CLASSIFICATION"}
      /\ LabelsAt(12, "llm_settings_key_enum") = {"CLASSIFICATION", "RESPONSE"}
      /\ LabelsAt(12, "post_channel_enum") = {"INTERNAL", "PUBLIC", "OFF"}
      /\ LabelsAt(12, "reply_attempt_status_enum") = AttemptStatuses
      /\ LabelsAt(12, "llm_playground_ticket_status_enum") = TicketStatuses
      /\ LabelsAt(12, "llm_playground_message_role_enum") = MessageRoles
      /\ LabelsAt(12, "llm_playground_run_status_enum") = RunStatuses
  BY DEF LabelsAt, Channels
<1> DEFINE column(t, type) == <<t, type, LabelsAt(12, type)>>
<1> DEFINE columns ==
        {column("telegram_users", "user_role_enum"),
         column("llm_prompts", "llm_prompt_key_enum"),
         column("llm_runtime_settings", "llm_settings_key_enum"),
         column("zendesk_runtime_settings", "post_channel_enum"),
         column("our_posts", "post_channel_enum"), column("admin_users", "user_role_enum"),
         column("ticket_reply_attempts", "post_channel_enum"),
         column("ticket_reply_attempts", "reply_attempt_status_enum"),
         column("llm_playground_tickets", "llm_playground_ticket_status_enum"),
         column("llm_playground_messages", "llm_playground_message_role_enum"),
         column("llm_playground_runs", "llm_playground_run_status_enum")}
<1>4. EnumsAt(12) = columns
  <2>1. EnumsAt(12) = {column(use[1], use[2]) : use \in UsesAt(12)}
    BY DEF EnumsAt
  <2> HIDE DEF column
  <2>2. \A t, type : <<t, type>> \in UsesAt(12) => column(t, type) \in EnumsAt(12)
    <3> TAKE t, type
    <3> DEFINE use == <<t, type>>
    <3>1. use[1] = t /\ use[2] = type
      OBVIOUS
    <3> HIDE DEF use
    <3>2. use \in UsesAt(12) => column(use[1], use[2]) \in EnumsAt(12)
      BY <2>1, Zenon
    <3> QED
      BY <3>1, <3>2, Zenon DEF use
  <2>3. \A use \in UsesAt(12) : \E t, type : use = <<t, type>>
    BY <1>2, Zenon
  <2>4. ASSUME NEW x \in EnumsAt(12)
        PROVE  \E t, type : <<t, type>> \in UsesAt(12) /\ x = column(t, type)
    <3>1. PICK use \in UsesAt(12) : x = column(use[1], use[2])
      BY <2>1, Zenon
    <3>2. PICK t, type : use = <<t, type>>
      BY <2>3, Zenon
    <3>3. use[1] = t /\ use[2] = type
      BY <3>2
    <3> QED
      BY <3>1, <3>2, <3>3, Zenon
  <2>5. \A t, type : <<t, type>> \in UsesAt(12) =>
          \/ t = "telegram_users" /\ type = "user_role_enum"
          \/ t = "llm_prompts" /\ type = "llm_prompt_key_enum"
          \/ t = "llm_runtime_settings" /\ type = "llm_settings_key_enum"
          \/ t = "zendesk_runtime_settings" /\ type = "post_channel_enum"
          \/ t = "our_posts" /\ type = "post_channel_enum"
          \/ t = "admin_users" /\ type = "user_role_enum"
          \/ t = "ticket_reply_attempts" /\ type = "post_channel_enum"
          \/ t = "ticket_reply_attempts" /\ type = "reply_attempt_status_enum"
          \/ t = "llm_playground_tickets" /\ type = "llm_playground_ticket_status_enum"
          \/ t = "llm_playground_messages" /\ type = "llm_playground_message_role_enum"
          \/ t = "llm_playground_runs" /\ type = "llm_playground_run_status_enum"
    BY <1>2
  <2>6. /\ column("telegram_users", "user_role_enum") \in EnumsAt(12)
        /\ column("llm_prompts", "llm_prompt_key_enum") \in EnumsAt(12)
        /\ column("llm_runtime_settings", "llm_settings_key_enum") \in EnumsAt(12)
        /\ column("zendesk_runtime_settings", "post_channel_enum") \in EnumsAt(12)
        /\ column("our_posts", "post_channel_enum") \in EnumsAt(12)
        /\ column("admin_users", "user_role_enum") \in EnumsAt(12)
        /\ column("ticket_reply_attempts", "post_channel_enum") \in EnumsAt(12)
        /\ column("ticket_reply_attempts", "reply_attempt_status_enum") \in EnumsAt(12)
        /\ column("llm_playground_tickets", "llm_playground_ticket_status_enum") \in EnumsAt(12)
        /\ column("llm_playground_messages", "llm_playground_message_role_enum") \in EnumsAt(12)
        /\ column("llm_playground_runs", "llm_playground_run_status_enum") \in EnumsAt(12)
    BY <1>2, <2>2
  <2>7. \A x \in EnumsAt(12) : x \in columns
    <3> TAKE x \in EnumsAt(12)
    <3>1. PICK t, type : <<t, type>> \in UsesAt(12) /\ x = column(t, type)
      BY <2>4
    <3> QED
      BY <2>5, <3>1, Zenon
  <2>8. \A x \in columns : x \in EnumsAt(12)
    BY <2>6, Zenon
  <2> QED
    BY <2>7, <2>8, Zenon
<1>5. ModelEnums = columns
  BY <1>3 DEF ModelEnums, ChannelColumns, UserModels
<1> QED
  BY <1>1, <1>4, <1>5

\* RevisionTellsSchema in every state: the path of upgrades and downgrades leaves no trace
\* in the schema, and at the head it is the schema of the models.
THEOREM RevisionTells == Spec => []RevisionTellsSchema
<1>1. Inv => RevisionTellsSchema
  <2> SUFFICES ASSUME Inv PROVE RevisionTellsSchema
    OBVIOUS
  <2> DEFINE v == db.version
             fresh == Upgrade(v, Empty)
  <2>1. v \in 0..12 /\ At(v, db)
    BY DEF Inv, Known
  <2>2. Known(fresh) /\ fresh.version = v
    <3>1. Known(Empty) /\ Empty.version = 0
      BY EmptyKnown
    <3> QED
      BY <2>1, <3>1, UpgradeIs DEF Stage
  <2>3. At(v, fresh)
    BY <2>2 DEF Known
  <2> HIDE DEF fresh
  <2>4. EnumsOf(db) = EnumsAt(v) /\ EnumsOf(fresh) = EnumsAt(v)
    BY <2>1, <2>3, EnumsOfRevision
  <2>5. db.tables = fresh.tables /\ db.body = fresh.body
    BY <2>1, <2>3, Zenon DEF At
  <2>6. Shape(db) = Shape(fresh)
    BY <2>4, <2>5, Zenon DEF Shape
  <2>7. ASSUME v = 12
        PROVE  Shape(db) = [tables |-> ModelTables, enums |-> ModelEnums, body |-> TRUE]
    <3>1. db.tables = ModelTables /\ EnumsOf(db) = ModelEnums
      BY <2>1, <2>4, <2>7, ModelsAtHead DEF At
    <3>2. (v >= 3) = TRUE
      BY <2>7
    <3>3. db.body = TRUE
      BY <2>1, <3>2, Zenon DEF At
    <3> QED
      BY <3>1, <3>3, Zenon DEF Shape
  <2> QED
    BY <2>6, <2>7 DEF RevisionTellsSchema, LastRevision, fresh
<1> QED
  BY <1>1, SchemaInvariant, PTL

-----------------------------------------------------------------------------
\* RowsSurvive at every step: no row is left with a channel that its type has lost, and no
\* migration deletes a rule of an admin or, upgrading, changes a rule.
LEMMA InUseKept == Inv => ChannelsInUseAreKept
<1> SUFFICES ASSUME Inv, "OFF" \in db.posted \cup {db.mode}
             PROVE  "OFF" \in db.types["post_channel_enum"]
  BY DEF ChannelsInUseAreKept
<1>1. At(12, db)
  BY DEF Inv, Known
<1>2. LabelsAt(12, "post_channel_enum") = Channels \cup {"OFF"}
  BY DEF LabelsAt
<1>3. db.types["post_channel_enum"] = Channels \cup {"OFF"}
  BY <1>1, <1>2, TypeNamesAre DEF At
<1> QED
  BY <1>3

THEOREM RowsOutlive == Spec => RowsSurvive
<1> DEFINE Kept == /\ {r \in db.rules : r.author = "admin"} \subseteq db'.rules
                   /\ db'.version >= db.version => db.rules \subseteq db'.rules
<1>1. Inv /\ [Next]_vars => (edits' = edits => Kept)
  <2> SUFFICES ASSUME Inv, [Next]_vars, edits' = edits PROVE Kept
    OBVIOUS
  <2>0. Known(db) /\ Schema(db) /\ db.version \in 0..12 /\ edits \in Nat
    BY DEF Inv, Known
  <2>1. ASSUME NEW image \in Images, Migrate(image) PROVE Kept
    <3>1. image \in 0..12 /\ db.version \in 0..image
      BY <2>0, <2>1, MigrationsAssumption DEF Migrate, Knows, LastRevision
    <3>2. Stage(12, image, db, Upgrade(image, db))
      BY <2>0, <3>1, UpgradeIs
    <3>3. db' = Upgrade(image, db)
      BY <2>1 DEF Migrate
    <3> QED
      BY <3>2, <3>3 DEF Stage
  <2>2. ASSUME NEW image \in Images, DowngradeOne(image) PROVE Kept
    <3> DEFINE r == db.version
               lower == Down(r, db)
    <3>1. r \in 1..12 /\ Downgrade(db).ok /\ db' = Downgrade(db)
      BY <2>0, <2>2 DEF DowngradeOne
    <3>2. Downgrade(db) = [lower EXCEPT !.version = lower.version - 1]
      BY DEF Downgrade
    <3>3. Schema(lower)
      BY <2>0, <3>1, DownSchema DEF Known
    <3> HIDE DEF lower
    <3>4. /\ Downgrade(db).ok = lower.ok /\ Downgrade(db).rules = lower.rules
          /\ Downgrade(db).version = lower.version - 1
      BY <3>2, <3>3, VersionIs
    <3>5. Lowered(r - 1, db, lower)
      BY <2>0, <3>1, <3>4, DownLowers DEF Known, lower
    <3>6. lower.version = r
      BY <3>5 DEF Lowered
    <3>7. ~(db'.version >= db.version)
      BY <2>0, <3>1, <3>4, <3>6
    <3>8. \A rule \in db.rules : rule.author = "admin" => rule \in db'.rules
      BY <3>1, <3>4, <3>5 DEF Lowered
    <3> QED
      BY <3>7, <3>8
  <2>3. ASSUME db'.rules = db.rules PROVE Kept
    BY <2>3
  <2>4. ASSUME ProdUp \/ Interrupted \/ UNCHANGED vars PROVE Kept
    BY <2>3, <2>4 DEF ProdUp, Interrupted, vars
  <2>5. ASSUME Answer PROVE Kept
    <3>1. PICK posted, mode : db' = [db EXCEPT !.posted = posted, !.mode = mode]
      BY <2>5 DEF Answer
    <3>2. db'.rules = db.rules
      BY <2>0, <3>1 DEF Schema
    <3> QED
      BY <2>3, <3>2
  <2>9. ASSUME AddUserTwice PROVE Kept
    <3>1. PICK twins : db' = [db EXCEPT !.twins = twins]
      BY <2>9 DEF AddUserTwice
    <3>2. db'.rules = db.rules
      BY <2>0, <3>1 DEF Schema
    <3> QED
      BY <2>3, <3>2
  <2>6. ASSUME NEW channel \in {"INTERNAL", "OFF"}, SetMode(channel) PROVE Kept
    <3>1. PICK mode : db' = [db EXCEPT !.mode = mode]
      BY <2>6, Zenon DEF SetMode
    <3>2. db'.rules = db.rules
      BY <2>0, <3>1 DEF Schema
    <3> QED
      BY <2>3, <3>2
  <2>7. ASSUME edits' = edits + 1 PROVE FALSE
    BY <2>0, <2>7
  <2>8. ~CreateRule("spam_body_pattern") /\ \A rule \in db.rules : ~DeactivateRule(rule)
    BY <2>7 DEF CreateRule, DeactivateRule
  <2> QED
    BY <2>1, <2>2, <2>4, <2>5, <2>6, <2>8, <2>9, Zenon DEF Next
<1>2. Inv /\ Inv' /\ [Next]_vars =>
        [/\ ChannelsInUseAreKept'
         /\ edits' = edits =>
              /\ {r \in db.rules : r.author = "admin"} \subseteq db'.rules
              /\ db'.version >= db.version => db.rules \subseteq db'.rules]_vars
  <2>1. Inv' => ChannelsInUseAreKept'
    BY InUseKept, PTL
  <2> QED
    BY <1>1, <2>1
<1> QED
  BY <1>2, SchemaInvariant, PTL DEF Spec, RowsSurvive

=============================================================================
